---- MODULE Spec2Model ----
(***************************************************************************)
(* Identity & authorization kernel of opentrusty-core.                     *)
(*                                                                         *)
(* SpecAuth : user.Service (provisioning, passwords, Authenticate and its  *)
(*            lockout handling) over the two UserRepository                *)
(*            implementations of the repository: the relational one        *)
(*            (store/postgres) and the in-memory one of the service tests. *)
(* SpecAuthz: authz.Service.HasPermission over the relational tables       *)
(*            rbac_roles and rbac_assignments.                             *)
(* SpecTenant: tenant.Service (CreateTenant, AssignRole, RevokeRole,       *)
(*            DeleteTenant) over tenants, tenant_members, oauth2_clients   *)
(*            and rbac_assignments.                                        *)
(* SpecCascade: tenant.Service over a store whose calls can fail.          *)
(* SpecNames : tenant.Service creating, renaming and deleting tenants.     *)
(* SpecSession: session.Service (Create, Get, Refresh, Destroy,            *)
(*            DestroyAllForUser, CleanupExpired) called concurrently.      *)
(***************************************************************************)
EXTENDS Integers, Sequences, FiniteSets, Bags, TLC

VARIABLES
    repoImpl,      \* which UserRepository the user.Service was constructed with
    users,         \* users table / MockUserRepository.users, by identity id
    credentials,   \* credentials table, by identity id
    now,           \* the wall clock, time.Now()
    last,          \* the last service call: its arguments and what it returned
    run,           \* history: per identity, the current run of wrong-password calls
    tenants,       \* tenants table, by tenant id
    members,       \* tenant_members table: rows <<tenant, user>>
    clients,       \* oauth2_clients table, by client id
    roles,         \* rbac_roles with their permissions, by role id
    assignments,   \* rbac_assignments table: a bag of rows
    sessions,      \* sessions table, by session id
    inflight,      \* the session.Service calls in progress, by caller
    expiredSeen,   \* history: the session ids a Get has answered ErrSessionExpired for
    codes,         \* authorization_codes table, by code
    tokens,        \* access_tokens and refresh_tokens tables, by kind and token hash
    redeemed,      \* history: per authorization code, the MarkAsUsed calls that returned nil
    audit,         \* the sinks of audit.RepositoryLogger: structured log and audit_events
    logins         \* the Authenticate calls in progress, by caller, and their history

authVars == <<repoImpl, users, credentials, now, run, logins>>
rbacVars == <<tenants, members, clients, roles, assignments>>
sessVars == <<sessions, inflight, expiredSeen>>
oauthVars == <<codes, tokens, redeemed>>
vars     == <<repoImpl, users, credentials, now, last, run,
              tenants, members, clients, roles, assignments,
              sessions, inflight, expiredSeen, codes, tokens, redeemed, audit, logins>>

(***************************************************************************)
(* Bounds of the model                                                     *)
(***************************************************************************)
MaxUsers       == 1   \* identities that can be provisioned (SpecAuth)
MaxTime        == 3   \* clock ticks
MaxAttempts    == 4   \* cap of the stored failed_login_attempts counter
MaxPrincipals  == 2   \* identities that can be provisioned (SpecAuthz, SpecTenant)
MaxTenants     == 1   \* tenants that can be created
MaxClients     == 1   \* clients that can be registered
MaxAssignments == 2   \* rows of rbac_assignments
MaxNamedTenants == 2  \* tenants that can be created (SpecNames)
MaxSessions    == 1   \* sessions that can be created
MaxCallers     == 2   \* session.Service calls in progress at the same time
MaxRedemptions == 2   \* successful MarkAsUsed calls counted per code
MaxAuditLines  == 4   \* records of the structured log
MaxMetadataKeys == 2  \* keys in the metadata of one audit event
MaxRedactLines == 1   \* records of the structured log between rotations
MaxLogins      == 2   \* Authenticate calls in progress at a time

(***************************************************************************)
(* Configuration of user.NewService                                        *)
(***************************************************************************)
lockoutMaxAttempts == 3
lockoutDuration    == 2
hmacKey            == "test-key"

Nil     == -1          \* a nil pointer / SQL NULL timestamp
NoUser  == [id |-> 0]  \* no row
NoCred  == <<>>        \* no credentials row
UserIds == DOMAIN users

(***************************************************************************)
(* crypto.ComputeEmailHash                                                 *)
(* Emails are sequences of one-character strings.                          *)
(***************************************************************************)
UpperLetters == <<"A", "B", "C", "D", "E", "F", "G", "H", "I", "J", "K", "L", "M",
                  "N", "O", "P", "Q", "R", "S", "T", "U", "V", "W", "X", "Y", "Z">>
LowerLetters == <<"a", "b", "c", "d", "e", "f", "g", "h", "i", "j", "k", "l", "m",
                  "n", "o", "p", "q", "r", "s", "t", "u", "v", "w", "x", "y", "z">>

LowerChar(c) ==
    IF \E i \in DOMAIN UpperLetters : UpperLetters[i] = c
    THEN LowerLetters[CHOOSE i \in DOMAIN UpperLetters : UpperLetters[i] = c]
    ELSE c

ToLower(s) == [i \in 1..Len(s) |-> LowerChar(s[i])]

IsSpace(c) == c \in {" ", "\t", "\n"}

RECURSIVE TrimLeft(_)
TrimLeft(s) == IF s # <<>> /\ IsSpace(Head(s)) THEN TrimLeft(Tail(s)) ELSE s

RECURSIVE TrimRight(_)
TrimRight(s) ==
    IF s # <<>> /\ IsSpace(s[Len(s)]) THEN TrimRight(SubSeq(s, 1, Len(s) - 1)) ELSE s

TrimSpace(s) == TrimRight(TrimLeft(s))

\* HMAC-SHA256 under the key, hex encoded: a keyed, collision-free digest.
HmacSha256Hex(key, msg) == <<"hmac", key, msg>>

\* An identifier that is the normalised address itself.
ComputeEmailPlain(key, emailPlain) ==
    TrimSpace(ToLower(emailPlain))

ComputeEmailHash(key, emailPlain) ==
    HmacSha256Hex(key, TrimSpace(ToLower(emailPlain)))

(***************************************************************************)
(* Inputs                                                                  *)
(***************************************************************************)
EmailA      == <<"a", "@", "b", "c">>
EmailAUpper == <<"A", "@", "B", "c", " ">>
EmailD      == <<"d", "@", "b", "c">>
EmailShort  == <<"a", "@", "b">>
Emails      == {EmailA, EmailAUpper, EmailD, EmailShort}
EmailShortPadded == <<"a", "@", "b", " ">>
\* Spellings of two addresses: each pair with the same first three characters
\* is equal after strings.ToLower and strings.TrimSpace.
EmailSpellings == {EmailA, EmailAUpper, EmailShort, EmailShortPadded}
Passwords   == {"secure-password", "wrong-password", "short"}
Salts       == {"s1"}

(***************************************************************************)
(* user.PasswordHasher                                                     *)
(***************************************************************************)
Argon2IDKey(password, salt) == <<"argon2id", password, salt>>

\* The encoded form $argon2id$v=..$m=..,t=..,p=..$salt$hash as its sections.
Hash(password, salt) ==
    <<"argon2id", "v=19", "m,t,p", salt, Argon2IDKey(password, salt)>>

\* Verify returns (valid, err); Authenticate treats an error as not valid.
Verify(password, encodedHash) ==
    /\ Len(encodedHash) = 5
    /\ encodedHash[1] = "argon2id"
    /\ Argon2IDKey(password, encodedHash[4]) = encodedHash[5]

isValidEmail(email) == Len(email) > 3 /\ Len(email) < 255

isStrongPassword(password) == Len(password) >= 8

(***************************************************************************)
(* UserRepository: postgres.UserRepository and MockUserRepository          *)
(***************************************************************************)
\* What GetByID/GetByHash of the relational repository scan into a User: the
\* SELECT lists neither failed_login_attempts nor locked_until, so both keep
\* the zero value of the Go struct.
ScanUser(row) ==
    [id                    |-> row.id,
     email_hash            |-> row.email_hash,
     failed_login_attempts |-> 0,
     locked_until          |-> Nil]

\* The in-memory repository hands out the stored *User itself.
MockUser(row) ==
    [id                    |-> row.id,
     email_hash            |-> row.email_hash,
     failed_login_attempts |-> row.failed_login_attempts,
     locked_until          |-> row.locked_until]

LoadUser(row) == IF repoImpl = "postgres" THEN ScanUser(row) ELSE MockUser(row)

\* GetByHash: the identity with this email hash that is not soft-deleted.
GetByHash(hash) ==
    LET found == {i \in UserIds : /\ users[i] # NoUser
                                  /\ users[i].email_hash = hash
                                  /\ users[i].deleted_at = Nil}
    IN  IF found = {} THEN NoUser ELSE LoadUser(users[CHOOSE i \in found : TRUE])

GetByID(id) ==
    IF id \in UserIds /\ users[id] # NoUser /\ users[id].deleted_at = Nil
    THEN LoadUser(users[id]) ELSE NoUser

\* UpdateLockout: UPDATE users SET failed_login_attempts, locked_until WHERE id.
UpdateLockout(tbl, userID, failedAttempts, lockedUntil) ==
    IF userID \in UserIds /\ tbl[userID] # NoUser
    THEN [tbl EXCEPT ![userID].failed_login_attempts = failedAttempts,
                     ![userID].locked_until = lockedUntil]
    ELSE tbl

\* id.NewUUIDv7: an identifier not used before.
NewUserID == CHOOSE i \in UserIds : users[i] = NoUser /\ \A j \in 1..(i - 1) : users[j] # NoUser

(***************************************************************************)
(* audit.Event                                                             *)
(***************************************************************************)
NoMetadata == <<>>

Event(type, tenant, actor, resource, reason, attempts, target) ==
    [type |-> type, tenant_id |-> tenant, actor_id |-> actor, resource |-> resource,
     reason |-> reason, attempts |-> attempts, target |-> target,
     metadata |-> NoMetadata]

CountType(log, type) == Cardinality({i \in 1..Len(log) : log[i].type = type})

\* A service call: its result, the store calls it issued (calls), the one of
\* them the store failed (fault, 0 for none) and the events it handed to
\* audit.Logger.Log.
NoCall == [op |-> "none", result |-> "none", args |-> <<>>, user |-> 0, exists |-> FALSE,
           hasPw |-> FALSE, wrong |-> FALSE, runBefore |-> 0, inWindow |-> FALSE,
           lockedBefore |-> FALSE, emitted |-> <<>>, calls |-> <<>>, fault |-> 0,
           obs |-> <<>>]

\* The history of an identity: the number n of consecutive wrong-password calls
\* made on it since it was provisioned or since its last successful authenticate
\* that left the stored counter at 0 and no stored lock, the time of the
\* lockoutMaxAttempts-th of them and the user_locked events they emitted.
\* NoRun: no such run is in progress, or it is longer than lockoutMaxAttempts.
FreshRun == [n |-> 0, lastAt |-> 0, userLocked |-> 0]
NoRun    == [n |-> Nil, lastAt |-> 0, userLocked |-> 0]

(***************************************************************************)
(* user.Service                                                            *)
(***************************************************************************)
NewUserRow(id, hash) ==
    [id |-> id, email_hash |-> hash, failed_login_attempts |-> 0,
     locked_until |-> Nil, deleted_at |-> Nil]

Call(op, result, user) ==
    [NoCall EXCEPT !.op = op, !.result = result, !.user = user]

\* ProvisionIdentity(emailPlain, profile)
ProvisionIdentity(e) ==
    \E emailHash \in {ComputeEmailHash(hmacKey, e)} :
    /\ (isValidEmail(e) /\ GetByHash(emailHash) = NoUser) => \E i \in UserIds : users[i] = NoUser
    /\ IF ~isValidEmail(e)
       THEN /\ last' = Call("provision", "invalid_email", 0)
            /\ UNCHANGED <<users, run>>
       ELSE IF GetByHash(emailHash) # NoUser
       THEN /\ last' = Call("provision", "already_exists", GetByHash(emailHash).id)
            /\ UNCHANGED <<users, run>>
       ELSE /\ users' = [users EXCEPT ![NewUserID] = NewUserRow(NewUserID, emailHash)]
            /\ run' = [run EXCEPT ![NewUserID] = FreshRun]
            /\ last' = Call("provision", "ok", NewUserID)
    /\ UNCHANGED <<logins, repoImpl, credentials, now, rbacVars>>

\* UserRepository.AddCredentials: the credentials table has user_id as its
\* primary key and as a foreign key to users; the in-memory map overwrites.
AddCredentialsFails(userID) ==
    /\ repoImpl = "postgres"
    /\ \/ users[userID] = NoUser
       \/ credentials[userID] # NoCred

\* AddPassword(userID, password)
AddPassword(u, p) ==
    /\ \E salt \in Salts :
        IF ~isStrongPassword(p)
        THEN /\ last' = Call("add_password", "weak_password", u)
             /\ UNCHANGED credentials
        ELSE IF AddCredentialsFails(u)
        THEN /\ last' = Call("add_password", "storage_error", u)
             /\ UNCHANGED credentials
        ELSE /\ credentials' = [credentials EXCEPT ![u] = Hash(p, salt)]
             /\ last' = Call("add_password", "ok", u)
    /\ UNCHANGED <<logins, repoImpl, users, now, run, rbacVars>>

\* SetPassword(userID, password): AddCredentials when GetCredentials finds
\* none, UpdatePassword otherwise.
SetPasswordStep(creds, u, p, salt) ==
    IF ~isStrongPassword(p) THEN [result |-> "weak_password", credentials |-> creds]
    ELSE IF creds[u] = NoCred
    THEN IF repoImpl = "postgres" /\ users[u] = NoUser
         THEN [result |-> "storage_error", credentials |-> creds]
         ELSE [result |-> "ok", credentials |-> [creds EXCEPT ![u] = Hash(p, salt)]]
    ELSE [result |-> "ok", credentials |-> [creds EXCEPT ![u] = Hash(p, salt)]]

SetPassword(u, p) ==
    /\ \E salt \in Salts :
        LET r == SetPasswordStep(credentials, u, p, salt) IN
        /\ credentials' = r.credentials
        /\ last' = Call("set_password", r.result, u)
    /\ UNCHANGED <<logins, repoImpl, users, now, run, rbacVars>>

\* A lockout check that ignores the clock.
IsLockedOutForever(user, t) == user.locked_until # Nil

\* The lockout check of Authenticate: LockedUntil != nil && LockedUntil.After(now)
IsLockedOut(user, t) == user.locked_until # Nil /\ user.locked_until > t

\* A lockout that needs one failure more than lockoutMaxAttempts.
FailedLockoutLate(user, t) ==
    LET newAttempts == user.failed_login_attempts + 1 IN
    [attempts     |-> newAttempts,
     locked_until |-> IF newAttempts > lockoutMaxAttempts
                      THEN t + lockoutDuration ELSE Nil]

\* The lockout written after a failed verification: (newAttempts, newLockedUntil)
FailedLockout(user, t) ==
    LET newAttempts == user.failed_login_attempts + 1 IN
    [attempts     |-> newAttempts,
     locked_until |-> IF newAttempts >= lockoutMaxAttempts
                      THEN t + lockoutDuration ELSE Nil]

\* UserRepository.UpdateLockout called on the repository by any of its users,
\* such as a user.Service constructed with other lockout settings.
RepoUpdateLockout(u, failedAttempts, lockedUntil) ==
    /\ users[u] # NoUser
    /\ users' = UpdateLockout(users, u, failedAttempts, lockedUntil)
    /\ run' = [run EXCEPT ![u] = NoRun]
    /\ last' = [NoCall EXCEPT !.op = "update_lockout", !.result = "ok", !.user = u]
    /\ UNCHANGED <<logins, repoImpl, credentials, now, rbacVars>>

\* What Authenticate(emailPlain, password) does: the result it returns, the
\* users table it leaves and the audit events it emits, in order.
AuthenticateFor(emailHash, user, p) ==
    IF user = NoUser
    THEN [result |-> "invalid_credentials", users |-> users,
          events |-> <<Event("login_failed", 0, 0, "login_attempt", "user_not_found", 0, emailHash)>>]
    ELSE IF IsLockedOut(user, now)
    THEN [result |-> "account_locked", users |-> users,
          events |-> <<Event("login_failed", 0, user.id, "login", "locked_out", 0, <<>>)>>]
    ELSE IF credentials[user.id] = NoCred
    THEN [result |-> "invalid_credentials", users |-> users, events |-> <<>>]
    ELSE IF ~Verify(p, credentials[user.id])
    THEN LET f == FailedLockout(user, now) IN
         [result |-> "invalid_credentials",
          users  |-> UpdateLockout(users, user.id, f.attempts, f.locked_until),
          events |-> (IF f.locked_until # Nil
                      THEN <<Event("user_locked", 0, user.id, "login", "", f.attempts, <<>>)>>
                      ELSE <<>>)
                     \o <<Event("login_failed", 0, user.id, "login", "invalid_password", f.attempts, <<>>)>>]
    ELSE [result |-> "ok",
          users  |-> IF user.failed_login_attempts > 0 \/ user.locked_until # Nil
                     THEN UpdateLockout(users, user.id, 0, Nil) ELSE users,
          events |-> <<Event("login_success", 0, user.id, "login", "", 0, user.id)>>]

AuthenticateOutcome(e, p) ==
    LET emailHash == ComputeEmailHash(hmacKey, e) IN
    CHOOSE out \in {AuthenticateFor(emailHash, user, p) : user \in {GetByHash(emailHash)}} : TRUE

\* The identity row with this email hash, whatever the repository loads of it.
StoredByHash(hash) ==
    LET found == {i \in UserIds : /\ users[i] # NoUser
                                  /\ users[i].email_hash = hash
                                  /\ users[i].deleted_at = Nil}
    IN  IF found = {} THEN NoUser ELSE users[CHOOSE i \in found : TRUE]

Authenticate(e, p) ==
    \E out \in {AuthenticateOutcome(e, p)}, stored \in {StoredByHash(ComputeEmailHash(hmacKey, e))} :
    LET exists == stored # NoUser
        uid    == stored.id
        hasPw  == exists /\ credentials[uid] # NoCred
        wrong  == exists /\ ~(hasPw /\ Verify(p, credentials[uid]))
        r      == IF exists THEN run[uid] ELSE NoRun
    IN
    /\ \A i \in UserIds : out.users[i] # NoUser
            => out.users[i].failed_login_attempts <= MaxAttempts
    /\ users' = out.users
    /\ last' = [op |-> "authenticate", result |-> out.result, user |-> uid,
                exists |-> exists, hasPw |-> hasPw, wrong |-> wrong,
                runBefore |-> r.n,
                inWindow |-> r.n = lockoutMaxAttempts /\ now < r.lastAt + lockoutDuration,
                lockedBefore |-> /\ exists
                                 /\ stored.locked_until # Nil
                                 /\ stored.locked_until > now,
                emitted |-> out.events]
    /\ run' = IF ~exists THEN run
              ELSE IF out.result = "ok"
              THEN [run EXCEPT ![uid] =
                        IF /\ out.users[uid].failed_login_attempts = 0
                           /\ out.users[uid].locked_until = Nil
                        THEN FreshRun ELSE NoRun]
              ELSE IF hasPw /\ wrong /\ r.n # Nil /\ r.n < lockoutMaxAttempts
              THEN [run EXCEPT ![uid] =
                        [n          |-> r.n + 1,
                         lastAt     |-> IF r.n + 1 = lockoutMaxAttempts THEN now ELSE 0,
                         userLocked |-> r.userLocked + CountType(out.events, "user_locked")]]
              ELSE [run EXCEPT ![uid] = NoRun]
    /\ UNCHANGED <<logins, repoImpl, credentials, now, rbacVars>>

\* Time passes.
Tick ==
    /\ now < MaxTime
    /\ now' = now + 1
    /\ last' = NoCall
    /\ UNCHANGED <<logins, repoImpl, users, credentials, run, rbacVars>>

(***************************************************************************)
(* Tenants, memberships, clients, roles and assignments                    *)
(***************************************************************************)
TenantIds == DOMAIN tenants
ClientIds == 1..MaxClients
NoTenant  == [id |-> 0]   \* no row
NoClient  == [id |-> 0]
NoRole    == [id |-> ""]

\* A well-formed identifier that is no tenant's id.
UnknownTenant == MaxTenants + 1

\* The tenant identifiers a caller can know of: those of the tenants created,
\* deleted or not.
TenantArgs == {t \in TenantIds : tenants[t] # NoTenant}

NameAcmePadded == <<" ", "a", "c", "m", "e">>
NameShort      == <<" ", "a", "b">>
TenantNames    == {NameAcmePadded, NameShort}

ScopePlatform == "platform"
ScopeTenant   == "tenant"
ScopeClient   == "client"
Scopes        == {ScopePlatform, ScopeTenant, ScopeClient}

RoleTenantOwner   == "tenant_owner"
RoleTenantAdmin   == "tenant_admin"
RoleTenantMember  == "tenant_member"
RolePlatformAdmin == "platform_admin"

RoleIDPlatformAdmin == "00000000-0000-0000-0000-000000000001"
RoleIDTenantOwner   == "00000000-0000-0000-0000-000000000002"
RoleIDTenantAdmin   == "00000000-0000-0000-0000-000000000003"
RoleIDMember        == "00000000-0000-0000-0000-000000000004"
CustomRoleID        == "custom-role-id"   \* the id of a role created at run time
RoleIds == {RoleIDPlatformAdmin, RoleIDTenantOwner, RoleIDTenantAdmin,
            RoleIDMember, CustomRoleID}

\* rbac_permissions as seeded by the initial migration.
PermissionCatalog ==
    {"platform:manage_tenants", "tenant:manage_users", "user:read_profile",
     "control_plane:login", "tenant:view", "tenant:view_audit",
     "tenant:manage_clients", "*"}

\* The permission strings asked for: two of the catalog, one outside it, and
\* the wildcard itself.
Permissions == {"tenant:view", "tenant:manage_users", "unknown:perm", "*"}

\* The permission lists a role is created with.
PermissionLists == {<<>>, <<"*">>, <<"unknown:perm", "tenant:view">>}

TenantManagerPermissions ==
    <<"control_plane:login", "tenant:manage_users", "user:read_profile",
      "tenant:view", "tenant:view_audit", "tenant:manage_clients">>

\* rbac_roles and rbac_role_permissions as seeded by the initial migration.
SeedRoles ==
    [r \in RoleIds |->
        CASE r = RoleIDPlatformAdmin ->
                [id |-> r, name |-> RolePlatformAdmin, scope |-> ScopePlatform,
                 permissions |-> <<"*">>]
          [] r = RoleIDTenantOwner ->
                [id |-> r, name |-> RoleTenantOwner, scope |-> ScopeTenant,
                 permissions |-> TenantManagerPermissions]
          [] r = RoleIDTenantAdmin ->
                [id |-> r, name |-> RoleTenantAdmin, scope |-> ScopeTenant,
                 permissions |-> TenantManagerPermissions]
          [] r = RoleIDMember ->
                [id |-> r, name |-> RoleTenantMember, scope |-> ScopeTenant,
                 permissions |-> <<"tenant:view", "control_plane:login">>]
          [] OTHER -> NoRole]

(***************************************************************************)
(* role.Role and postgres.RoleRepository                                   *)
(***************************************************************************)
\* A role that honours no wildcard.
RoleHasPermissionExact(r, permission) ==
    \E i \in 1..Len(r.permissions) : r.permissions[i] = permission

\* Role.HasPermission
RoleHasPermission(r, permission) ==
    \E i \in 1..Len(r.permissions) :
        r.permissions[i] = "*" \/ r.permissions[i] = permission

\* RoleRepository.GetByID: NoRole stands for ErrRoleNotFound.
RoleGetByID(id) == IF id \in RoleIds THEN roles[id] ELSE NoRole

\* The permissions RoleRepository.Create links: names missing from
\* rbac_permissions are skipped.
LinkedPermissions(perms) ==
    LET Known(p) == p \in PermissionCatalog IN SelectSeq(perms, Known)

\* RoleRepository.Create of a role named "custom" in the tenant scope; rbac_roles
\* is UNIQUE(name, scope).
CreateRole(perms) ==
    /\ IF roles[CustomRoleID] # NoRole
       THEN /\ last' = [NoCall EXCEPT !.op = "create_role", !.result = "storage_error"]
            /\ UNCHANGED roles
       ELSE /\ roles' = [roles EXCEPT ![CustomRoleID] =
                            [id |-> CustomRoleID, name |-> "custom", scope |-> ScopeTenant,
                             permissions |-> LinkedPermissions(perms)]]
            /\ last' = [NoCall EXCEPT !.op = "create_role", !.result = "ok"]
    /\ UNCHANGED <<authVars, tenants, members, clients, assignments>>

\* The rows of a bag that are in the set kept, with their multiplicity.
FilterBag(b, kept) == [a \in (DOMAIN b) \cap kept |-> b[a]]

\* RoleRepository.Delete: rbac_assignments.role_id is ON DELETE CASCADE.
DeleteRole(id) ==
    /\ IF roles[id] = NoRole
       THEN /\ last' = [NoCall EXCEPT !.op = "delete_role", !.result = "role_not_found"]
            /\ UNCHANGED <<roles, assignments>>
       ELSE /\ roles' = [roles EXCEPT ![id] = NoRole]
            /\ assignments' = FilterBag(assignments, {a \in DOMAIN assignments : a.role_id # id})
            /\ last' = [NoCall EXCEPT !.op = "delete_role", !.result = "ok"]
    /\ UNCHANGED <<authVars, tenants, members, clients>>

(***************************************************************************)
(* postgres.AssignmentRepository and postgres.TenantRoleRepository, both   *)
(* over rbac_assignments                                                   *)
(***************************************************************************)
\* granted_by is 0 for NULL, which is what the empty string is stored as.
AssignmentRow(userID, roleID, scope, scopeContextID) ==
    [user_id |-> userID, role_id |-> roleID, scope |-> scope,
     scope_context_id |-> scopeContextID, granted_by |-> 0]

\* The columns of UNIQUE(user_id, role_id, scope, scope_context_id)
SameKey(a, b) ==
    /\ a.user_id = b.user_id
    /\ a.role_id = b.role_id
    /\ a.scope = b.scope
    /\ a.scope_context_id = b.scope_context_id

\* The constraints of rbac_assignments an INSERT can violate: the foreign keys
\* of user_id, role_id and granted_by and the CHECK on scope_context_id.
\* grantedBy is 0 for the empty string, stored as NULL; a caller can name in it
\* only an identity of the table as it was when the call was made.
InsertViolates(usr, row, grantedBy) ==
    \/ row.user_id \notin DOMAIN usr
    \/ usr[row.user_id] = NoUser
    \/ RoleGetByID(row.role_id) = NoRole
    \/ grantedBy # 0 /\ (grantedBy \notin DOMAIN users \/ users[grantedBy] = NoUser)
    \/ ~ \/ row.scope = ScopePlatform /\ row.scope_context_id = Nil
         \/ row.scope # ScopePlatform /\ row.scope_context_id # Nil

\* An INSERT without ON CONFLICT DO NOTHING that succeeds.
InsertAssignmentAgain(asg, row) == asg (+) SetToBag({row})

\* INSERT ... ON CONFLICT (user_id, role_id, scope, scope_context_id) DO NOTHING:
\* two rows with a NULL scope_context_id never conflict.
InsertAssignment(asg, row) ==
    IF row.scope_context_id # Nil /\ \E a \in DOMAIN asg : SameKey(a, row)
    THEN asg
    ELSE asg (+) SetToBag({row})

\* A DELETE whose WHERE clause names the platform scope.
DeleteAssignmentPlatformOnly(asg, userID, roleID, scope, scopeContextID) ==
    FilterBag(asg, {a \in DOMAIN asg :
                        ~(/\ SameKey(a, AssignmentRow(userID, roleID, scope, scopeContextID))
                          /\ a.scope = ScopePlatform)})

\* DELETE ... WHERE user_id, role_id, scope, scope_context_id (IS NULL for nil)
DeleteAssignment(asg, userID, roleID, scope, scopeContextID) ==
    FilterBag(asg, {a \in DOMAIN asg :
                        ~SameKey(a, AssignmentRow(userID, roleID, scope, scopeContextID))})

\* DELETE ... WHERE scope AND scope_context_id
DeleteByContextID(asg, scope, contextID) ==
    FilterBag(asg, {a \in DOMAIN asg :
                        ~(a.scope = scope /\ a.scope_context_id = contextID)})

\* AssignmentRepository.ListForUser
ListForUser(userID) == {a \in DOMAIN assignments : a.user_id = userID}

\* AssignmentRepository.Grant
Grant(u, roleID, scope, ctx) ==
    /\ IF InsertViolates(users, AssignmentRow(u, roleID, scope, ctx), 0)
       THEN /\ last' = [NoCall EXCEPT !.op = "grant", !.result = "storage_error"]
            /\ UNCHANGED assignments
       ELSE /\ assignments' = InsertAssignment(assignments, AssignmentRow(u, roleID, scope, ctx))
            /\ BagCardinality(assignments') <= MaxAssignments
            /\ last' = [NoCall EXCEPT !.op = "grant", !.result = "ok"]
    /\ UNCHANGED <<authVars, tenants, members, clients, roles>>

\* AssignmentRepository.Revoke
Revoke(u, roleID, scope, ctx) ==
    /\ assignments' = DeleteAssignment(assignments, u, roleID, scope, ctx)
    /\ last' = [NoCall EXCEPT !.op = "revoke", !.result = "ok"]
    /\ UNCHANGED <<authVars, tenants, members, clients, roles>>

\* MapTenantRole
MapTenantRole(roleName) ==
    CASE roleName = RoleTenantOwner  -> RoleIDTenantOwner
      [] roleName = RoleTenantAdmin  -> RoleIDTenantAdmin
      [] roleName = RoleTenantMember -> RoleIDMember
      [] OTHER                       -> RoleIDMember

(***************************************************************************)
(* authz.Service.HasPermission                                             *)
(***************************************************************************)
\* A match that needs the platform scope to be the one asked for.
MatchesScopeNoOverride(a, scope, scopeContextID) ==
    /\ a.scope = scope
    /\ \/ a.scope = ScopePlatform
       \/ /\ scopeContextID # Nil
          /\ a.scope_context_id # Nil
          /\ a.scope_context_id = scopeContextID

\* A match that does not compare the contexts.
MatchesScopeAnyContext(a, scope, scopeContextID) ==
    \/ a.scope = ScopePlatform
    \/ a.scope = scope

\* A match that compares the context pointers for equality, so that two nil
\* contexts are equal.
MatchesScopeNilEqual(a, scope, scopeContextID) ==
    \/ a.scope = ScopePlatform
    \/ /\ a.scope = scope
       /\ a.scope_context_id = scopeContextID

\* matchesScope of the loop body
MatchesScope(a, scope, scopeContextID) ==
    \/ a.scope = ScopePlatform
    \/ /\ a.scope = scope
       /\ scopeContextID # Nil
       /\ a.scope_context_id # Nil
       /\ a.scope_context_id = scopeContextID

HasPermission(userID, scope, scopeContextID, permission) ==
    \E a \in ListForUser(userID) :
        /\ MatchesScope(a, scope, scopeContextID)
        /\ RoleGetByID(a.role_id) # NoRole
        /\ RoleHasPermission(RoleGetByID(a.role_id), permission)

(***************************************************************************)
(* postgres.MembershipRepository and postgres.ClientRepository             *)
(***************************************************************************)
\* tenant_members references tenants(id) and users(id).
MemberInsertViolates(tn, usr, t, u) ==
    \/ t \notin DOMAIN tn
    \/ tn[t] = NoTenant
    \/ u \notin DOMAIN usr
    \/ usr[u] = NoUser

\* MembershipRepository.AddMember
AddMember(t, u) ==
    /\ IF MemberInsertViolates(tenants, users, t, u)
       THEN /\ last' = [NoCall EXCEPT !.op = "add_member", !.result = "storage_error"]
            /\ UNCHANGED members
       ELSE /\ members' = members \cup {<<t, u>>}
            /\ last' = [NoCall EXCEPT !.op = "add_member", !.result = "ok"]
    /\ UNCHANGED <<authVars, tenants, clients, roles, assignments>>

\* MembershipRepository.RemoveMember
RemoveMember(t, u) ==
    /\ members' = members \ {<<t, u>>}
    /\ last' = [NoCall EXCEPT !.op = "remove_member", !.result = "ok"]
    /\ UNCHANGED <<authVars, tenants, clients, roles, assignments>>

\* MembershipRepository.CheckMembership
CheckMembership(t, u) == <<t, u>> \in members

NewClientID == CHOOSE c \in ClientIds : clients[c] = NoClient

\* ClientRepository.Create: oauth2_clients references tenants(id).
CreateClient(t) ==
    /\ \E c \in ClientIds : clients[c] = NoClient
    /\ IF t \notin TenantIds \/ tenants[t] = NoTenant
       THEN /\ last' = [NoCall EXCEPT !.op = "create_client", !.result = "storage_error"]
            /\ UNCHANGED clients
       ELSE /\ clients' = [clients EXCEPT ![NewClientID] =
                              [id |-> NewClientID, tenant_id |-> t, deleted_at |-> Nil]]
            /\ last' = [NoCall EXCEPT !.op = "create_client", !.result = "ok"]
    /\ UNCHANGED <<authVars, tenants, members, roles, assignments>>

\* A delete that leaves the clients of the tenant as they are.
ClientsKept(cl, t, at) == cl

\* ClientRepository.DeleteByTenantID
ClientsDeleteByTenantID(cl, t, at) ==
    [c \in DOMAIN cl |->
        IF cl[c] # NoClient /\ cl[c].tenant_id = t /\ cl[c].deleted_at = Nil
        THEN [cl[c] EXCEPT !.deleted_at = at] ELSE cl[c]]

(***************************************************************************)
(* tenant.Service                                                          *)
(***************************************************************************)
\* TenantRepository.GetByName
TenantByName(tn, name) ==
    {t \in DOMAIN tn : tn[t] # NoTenant /\ tn[t].name = name /\ tn[t].deleted_at = Nil}

NewTenantID == CHOOSE t \in TenantIds :
                   tenants[t] = NoTenant /\ \A j \in 1..(t - 1) : tenants[j] # NoTenant

\* The name check of CreateTenant, on the trimmed name.
ValidTenantName(name) == name # <<>> /\ Len(name) >= 3 /\ Len(name) <= 100

\* A store call the store fails with an error, leaving its tables as they
\* were: a lost connection, a timeout, a cancelled context. NoFault: none.
NoFault == 0

\* The store calls of AssignRole, in the order it issues them.
AssignRoleCalls ==
    <<"tenant_roles.assign_role", "tenant_members.add_member", "rbac_assignments.grant">>

\* The steps of AssignRole(tenantID, userID, roleName, grantedBy) on the tables
\* it is given, where the store fails the failAt-th store call: the result, the
\* tables it leaves, the store calls issued and the events emitted.
AssignRoleStep(tn, usr, mem, asg, tenantID, userID, roleName, grantedBy, failAt) ==
    LET row  == [AssignmentRow(userID, MapTenantRole(roleName), ScopeTenant, tenantID)
                    EXCEPT !.granted_by = grantedBy]
        \* TenantRoleRepository.AssignRole
        asg1 == InsertAssignment(asg, row)
        \* AddMember: its error is dropped
        mem2 == IF failAt = 2 \/ MemberInsertViolates(tn, usr, tenantID, userID)
                THEN mem ELSE mem \cup {<<tenantID, userID>>}
        \* AssignmentRepository.Grant of the same row
        asg3 == InsertAssignment(asg1, row)
    IN
    IF roleName \notin {RoleTenantOwner, RoleTenantAdmin, RoleTenantMember}
    THEN [result |-> "invalid_role", members |-> mem, assignments |-> asg,
          calls |-> <<>>, events |-> <<>>]
    ELSE IF failAt = 1 \/ InsertViolates(usr, row, grantedBy)
    THEN [result |-> "storage_error", members |-> mem, assignments |-> asg,
          calls |-> SubSeq(AssignRoleCalls, 1, 1), events |-> <<>>]
    ELSE IF failAt = 3
    THEN [result |-> "storage_error", members |-> mem2, assignments |-> asg1,
          calls |-> AssignRoleCalls, events |-> <<>>]
    ELSE [result |-> "ok", members |-> mem2, assignments |-> asg3,
          calls |-> AssignRoleCalls,
          events |-> <<Event("role_assigned", tenantID, grantedBy, roleName, "", 0, userID)>>]

AssignRole(t, u, roleName, by, failAt) ==
    \E out \in {AssignRoleStep(tenants, users, members, assignments, t, u, roleName, by,
                               failAt)} :
    /\ BagCardinality(out.assignments) <= MaxAssignments
    /\ members' = out.members
    /\ assignments' = out.assignments
    /\ last' = [NoCall EXCEPT !.op = "assign_role", !.result = out.result,
                              !.args = <<t, u, roleName, by>>, !.emitted = out.events,
                              !.calls = out.calls, !.fault = failAt]
    /\ UNCHANGED <<authVars, tenants, clients, roles>>

\* A revocation that nothing guards.
SelfRevocationAllowed(userID, roleName, actorID) == FALSE

\* The security check of RevokeRole
SelfRevocation(userID, roleName, actorID) ==
    userID = actorID /\ roleName = RoleTenantOwner

RevokeRole(t, u, roleName, actor) ==
    /\ IF SelfRevocation(u, roleName, actor)
       THEN /\ last' = [NoCall EXCEPT !.op = "revoke_role", !.result = "security_violation",
                                      !.args = <<t, u, roleName, actor>>]
            /\ UNCHANGED assignments
       ELSE /\ assignments' = DeleteAssignment(assignments, u, MapTenantRole(roleName),
                                               ScopeTenant, t)
            /\ last' = [NoCall EXCEPT !.op = "revoke_role", !.result = "ok",
                                      !.args = <<t, u, roleName, actor>>,
                                      !.exists = \E a \in DOMAIN assignments :
                                          SameKey(a, AssignmentRow(u, MapTenantRole(roleName),
                                                                   ScopeTenant, t)),
                                      !.emitted = <<Event("role_revoked", t, actor, roleName, "", 0, u)>>]
    /\ UNCHANGED <<authVars, tenants, members, clients, roles>>

\* Step 3 of CreateTenant: the owner identity and its password.
\* owner = 0: no owner was asked for.
ProvisionOwner(ownerEmail, ownerPassword, salt) ==
    LET hash     == ComputeEmailHash(hmacKey, ownerEmail)
        existing == GetByHash(hash)
        usr      == IF existing # NoUser THEN users
                    ELSE [users EXCEPT ![NewUserID] = NewUserRow(NewUserID, hash)]
        owner    == IF existing # NoUser THEN existing.id ELSE NewUserID
    IN
    IF ownerEmail = <<>>
    THEN [result |-> "ok", owner |-> 0, users |-> users, credentials |-> credentials]
    ELSE IF existing = NoUser /\ ~isValidEmail(ownerEmail)
    THEN [result |-> "invalid_email", owner |-> 0, users |-> users, credentials |-> credentials]
    ELSE IF ownerPassword = ""
    THEN [result |-> "ok", owner |-> owner, users |-> usr, credentials |-> credentials]
    ELSE IF ~isStrongPassword(ownerPassword)
    THEN [result |-> "weak_password", owner |-> owner, users |-> usr, credentials |-> credentials]
    ELSE [result |-> "ok", owner |-> owner, users |-> usr,
          credentials |-> [credentials EXCEPT ![owner] = Hash(ownerPassword, salt)]]

\* StatusActive
StatusActive == "active"

\* The tenant_created event of CreateTenant: the event has no TenantID, its
\* metadata has tenant_id, tenant_name and, when an owner was resolved (owner
\* # 0), owner_id.
TenantCreated(tenantID, name, owner, creator) ==
    [Event("tenant_created", 0, creator, "tenant", "", 0, tenantID) EXCEPT
        !.metadata = IF owner = 0
                     THEN [tenant_id |-> tenantID, tenant_name |-> name]
                     ELSE [tenant_id |-> tenantID, tenant_name |-> name, owner_id |-> owner]]

\* CreateTenant(name, ownerEmail, ownerPassword, creatorUserID); failAt is the
\* store call of its AssignRole that the store fails.
CreateTenant(name, ownerEmail, ownerPassword, creator, failAt) ==
    \E salt \in Salts, trimmed \in {TrimSpace(name)} :
    IF ~ValidTenantName(trimmed)
    THEN /\ last' = [NoCall EXCEPT !.op = "create_tenant", !.result = "invalid_tenant_name",
                                   !.args = <<0, 0, 0, <<>>, trimmed>>, !.fault = failAt]
         /\ UNCHANGED <<authVars, rbacVars>>
    ELSE IF TenantByName(tenants, trimmed) # {}
    THEN /\ last' = [NoCall EXCEPT !.op = "create_tenant", !.result = "tenant_already_exists",
                                   !.args = <<0, 0, 0, <<>>, trimmed>>, !.fault = failAt]
         /\ UNCHANGED <<authVars, rbacVars>>
    ELSE
      /\ ownerEmail # <<>> /\ GetByHash(ComputeEmailHash(hmacKey, ownerEmail)) = NoUser
            => \E i \in UserIds : users[i] = NoUser
      /\ \E t \in TenantIds : tenants[t] = NoTenant
      /\ \E po \in {ProvisionOwner(ownerEmail, ownerPassword, salt)} :
         /\ users' = po.users
         /\ credentials' = po.credentials
         /\ run' = [i \in UserIds |->
                        IF users[i] = NoUser /\ po.users[i] # NoUser THEN FreshRun ELSE run[i]]
         /\ IF po.result # "ok"
            THEN /\ last' = [NoCall EXCEPT !.op = "create_tenant", !.result = po.result,
                                           !.args = <<0, 0, 0, <<>>, trimmed>>,
                                           !.fault = failAt]
                 /\ UNCHANGED <<tenants, members, assignments>>
            ELSE
              /\ tenants' = [tenants EXCEPT ![NewTenantID] =
                                [id |-> NewTenantID, name |-> trimmed, status |-> StatusActive,
                                 deleted_at |-> Nil]]
              /\ IF po.owner = 0
                 THEN /\ last' = [NoCall EXCEPT
                                    !.op = "create_tenant", !.result = "ok",
                                    !.args = <<NewTenantID, 0, creator, ownerEmail, trimmed>>,
                                    !.fault = failAt,
                                    !.emitted = <<TenantCreated(NewTenantID, trimmed, 0, creator)>>]
                      /\ UNCHANGED <<members, assignments>>
                 ELSE \E ar \in {AssignRoleStep(tenants', po.users, members, assignments,
                                               NewTenantID, po.owner, RoleTenantOwner, creator,
                                               failAt)} :
                      /\ BagCardinality(ar.assignments) <= MaxAssignments
                      /\ members' = ar.members
                      /\ assignments' = ar.assignments
                      /\ last' = [NoCall EXCEPT
                                    !.op = "create_tenant", !.result = ar.result,
                                    !.args = <<NewTenantID, po.owner, creator, ownerEmail, trimmed>>,
                                    !.calls = ar.calls, !.fault = failAt,
                                    !.emitted =
                                        IF ar.result = "ok"
                                        THEN ar.events \o
                                             <<TenantCreated(NewTenantID, trimmed, po.owner,
                                                             creator)>>
                                        ELSE ar.events]
      /\ UNCHANGED <<logins, repoImpl, now, clients, roles>>

\* The tenant_updated event of UpdateTenant: the metadata has the changes
\* when the name changed.
TenantUpdated(tenantID, oldName, name, actor) ==
    [Event("tenant_updated", 0, actor, "tenant", "", 0, tenantID) EXCEPT
        !.metadata = IF oldName # name
                     THEN [tenant_id |-> tenantID, tenant_name |-> name,
                           changes |-> [name_from |-> oldName, name_to |-> name]]
                     ELSE [tenant_id |-> tenantID, tenant_name |-> name]]

\* TenantRepository.GetByID: a soft-deleted tenant is not found.
TenantGetByID(tn, id) ==
    IF id \in DOMAIN tn /\ tn[id] # NoTenant /\ tn[id].deleted_at = Nil
    THEN tn[id] ELSE NoTenant

\* TenantRepository.Delete: the soft delete.
TenantSoftDelete(tn, id, at) == [tn EXCEPT ![id].deleted_at = at]

\* UpdateTenant(tenantID, name, actorID): an empty name keeps the name; the
\* name given is stored as it is.
UpdateTenant(t, name, actor) ==
    /\ IF TenantGetByID(tenants, t) = NoTenant
       THEN /\ last' = [NoCall EXCEPT !.op = "update_tenant", !.result = "tenant_not_found",
                                      !.args = <<t, name>>]
            /\ UNCHANGED tenants
       ELSE \E newName \in {IF name # <<>> THEN name ELSE tenants[t].name} :
            /\ tenants' = [tenants EXCEPT ![t].name = newName]
            /\ last' = [NoCall EXCEPT !.op = "update_tenant", !.result = "ok",
                                      !.args = <<t, name>>,
                                      !.emitted = <<TenantUpdated(t, tenants[t].name, newName,
                                                                 actor)>>]
    /\ UNCHANGED <<authVars, members, clients, roles, assignments>>

\* MembershipRepository.DeleteByTenantID
MembersDeleteByTenantID(mem, t) == {m \in mem : m[1] # t}

\* The tables the cascade of DeleteTenant works on.
Store(tn, mem, cl, asg) ==
    [tenants |-> tn, members |-> mem, clients |-> cl, assignments |-> asg]

\* The cascade in another order: the clients before the memberships.
DeleteTenantCallsClientsFirst ==
    <<"oauth2_clients.delete_by_tenant_id", "tenant_members.delete_by_tenant_id",
      "tenant_roles.delete_by_tenant_id", "rbac_assignments.delete_by_context_id",
      "tenants.delete">>

\* The store calls of the cascade of DeleteTenant, in the order it issues them.
DeleteTenantCalls ==
    <<"tenant_members.delete_by_tenant_id", "oauth2_clients.delete_by_tenant_id",
      "tenant_roles.delete_by_tenant_id", "rbac_assignments.delete_by_context_id",
      "tenants.delete">>

\* One store call of the cascade for tenant t at time at, on the tables s: the
\* error it returns ("" for none) and the tables it leaves.
CascadeCall(call, s, t, at) ==
    CASE call = "tenant_members.delete_by_tenant_id" ->
            [err |-> "", store |-> [s EXCEPT !.members = MembersDeleteByTenantID(s.members, t)]]
      [] call = "oauth2_clients.delete_by_tenant_id" ->
            [err |-> "", store |-> [s EXCEPT !.clients = ClientsDeleteByTenantID(s.clients, t, at)]]
      [] call = "tenant_roles.delete_by_tenant_id" ->
            [err |-> "", store |-> [s EXCEPT !.assignments =
                                        DeleteByContextID(s.assignments, ScopeTenant, t)]]
      [] call = "rbac_assignments.delete_by_context_id" ->
            [err |-> "", store |-> [s EXCEPT !.assignments =
                                        DeleteByContextID(s.assignments, ScopeTenant, t)]]
      [] call = "tenants.delete" ->
            IF TenantGetByID(s.tenants, t) = NoTenant
            THEN [err |-> "tenant_not_found", store |-> s]
            ELSE [err |-> "", store |-> [s EXCEPT !.tenants = TenantSoftDelete(s.tenants, t, at)]]

\* The cascade from its k-th store call on, where the store fails the
\* failAt-th: an error returns at once.
RECURSIVE Cascade(_, _, _, _, _)
Cascade(k, s, t, at, failAt) ==
    IF k > Len(DeleteTenantCalls)
    THEN [result |-> "ok", store |-> s, calls |-> DeleteTenantCalls]
    ELSE IF k = failAt
    THEN [result |-> "storage_error", store |-> s, calls |-> SubSeq(DeleteTenantCalls, 1, k)]
    ELSE \* the k-th call is made once
         LET made == CHOOSE r \in {CascadeCall(DeleteTenantCalls[k], s, t, at)} : TRUE IN
         IF made.err # ""
         THEN [result |-> made.err, store |-> s, calls |-> SubSeq(DeleteTenantCalls, 1, k)]
         ELSE Cascade(k + 1, made.store, t, at, failAt)

\* The tenant_deleted event of DeleteTenant; tenantName is "Unknown" when the
\* tenant was not found.
TenantDeleted(tenantID, name, actor) ==
    [Event("tenant_deleted", 0, actor, "tenant", "", 0, tenantID) EXCEPT
        !.metadata = [tenant_id |-> tenantID, tenant_name |-> name]]

\* DeleteTenant(tenantID, actorID): the tenant is read for its name, then the
\* cascade runs, whose last call reports a tenant that is missing or already
\* deleted; failAt is the store call of the cascade that the store fails.
DeleteTenant(t, actor, failAt) ==
    \E out \in {Cascade(1, Store(tenants, members, clients, assignments), t, now, failAt)},
       tenantName \in {IF TenantGetByID(tenants, t) = NoTenant
                       THEN <<"U", "n", "k", "n", "o", "w", "n">>
                       ELSE TenantGetByID(tenants, t).name} :
    /\ tenants' = out.store.tenants
    /\ members' = out.store.members
    /\ clients' = out.store.clients
    /\ assignments' = out.store.assignments
    /\ last' = [NoCall EXCEPT !.op = "delete_tenant", !.result = out.result,
                              !.args = <<t, actor>>,
                              !.calls = <<"tenants.get_by_id">> \o out.calls,
                              !.fault = failAt,
                              !.emitted = IF out.result = "ok"
                                          THEN <<TenantDeleted(t, tenantName, actor)>>
                                          ELSE <<>>]
    /\ UNCHANGED <<authVars, roles>>

(***************************************************************************)
(* session.Service over the sessions table                                 *)
(* A call of Get or Refresh is a sequence of store calls and clock reads;  *)
(* calls of different callers interleave between them.                     *)
(***************************************************************************)
\* Configuration of session.NewService.
sessionLifetime    == 2
sessionIdleTimeout == 1

NoSession == [id |-> 0]  \* no row
Callers   == 1..MaxCallers

\* The identifiers a caller can present: those of the table and an unknown one.
SessionArgs == 1..MaxSessions

\* A caller that is not inside a call.
NotCalling == [op |-> "none", pc |-> "none", id |-> 0, session |-> NoSession, at |-> 0,
               destroyed |-> FALSE]

InitSessions ==
    /\ sessions = <<>>
    /\ inflight = [p \in Callers |-> NotCalling]
    /\ expiredSeen = {}

\* Session.IsExpired: time.Now().After(s.ExpiresAt)
IsExpiredAtDeadline(s, t) == t >= s.expires_at

IsExpired(s, t) == t > s.expires_at

\* Session.IsIdle: time.Since(s.LastSeenAt) > idleTimeout
IsIdle(s, t, idleTimeout) == t - s.last_seen_at > idleTimeout

\* SessionRepository.Get: the row, or pgx.ErrNoRows.
SessionRepoGet(ss, id) == IF id \in DOMAIN ss THEN ss[id] ELSE NoSession

\* SessionRepository.Update: UPDATE sessions SET last_seen_at = $2 WHERE id = $1
SessionRepoUpsert(ss, s) ==
    IF s.id \in DOMAIN ss THEN [ss EXCEPT ![s.id] = s] ELSE ss

\* An UPDATE that also moves the deadline on from the new last_seen_at.
SessionRepoUpdateSliding(ss, s) ==
    IF SessionRepoGet(ss, s.id) = NoSession
    THEN ss
    ELSE [ss EXCEPT ![s.id].last_seen_at = s.last_seen_at,
                    ![s.id].expires_at = s.last_seen_at + sessionLifetime]

SessionRepoUpdate(ss, s) ==
    IF SessionRepoGet(ss, s.id) = NoSession
    THEN ss
    ELSE [ss EXCEPT ![s.id].last_seen_at = s.last_seen_at]

\* SessionRepository.Delete: DELETE FROM sessions WHERE id = $1
SessionRepoKeep(ss, id) == ss

SessionRepoDelete(ss, id) == [i \in DOMAIN ss |-> IF i = id THEN NoSession ELSE ss[i]]

\* SessionRepository.DeleteByUserID: DELETE FROM sessions WHERE user_id = $1
SessionRepoDeleteByUserID(ss, userID) ==
    [i \in DOMAIN ss |-> IF ss[i] # NoSession /\ ss[i].user_id = userID
                         THEN NoSession ELSE ss[i]]

\* SessionRepository.DeleteExpired: DELETE FROM sessions WHERE expires_at < $1
SessionRepoDeleteExpired(ss, t) ==
    [i \in DOMAIN ss |-> IF ss[i] # NoSession /\ ss[i].expires_at < t
                         THEN NoSession ELSE ss[i]]

\* What a finished call of Get or Refresh leaves in the history: the session
\* it fetched, the clock it validated it against, whether a Get had answered
\* ErrSessionExpired for the id before the call fetched, and whether a
\* Destroy or DestroyAllForUser of the session ran during the call.
SessionCall(op, result, id, s, at, afterExpired, destroyed) ==
    [NoCall EXCEPT !.op = op, !.result = result, !.args = <<id>>,
                   !.obs = [session |-> s, at |-> at, afterExpired |-> afterExpired,
                            destroyed |-> destroyed]]

\* Service.Create(tenantID, userID, ipAddress, userAgent, namespace)
\* generateSessionID never repeats an identifier; user_id references users.
SessionCreate(userID) ==
    /\ Len(sessions) < MaxSessions
    /\ LET id == Len(sessions) + 1
           s  == [id |-> id, user_id |-> userID, expires_at |-> now + sessionLifetime,
                  created_at |-> now, last_seen_at |-> now]
       IN IF users[userID] = NoUser
          THEN /\ last' = [Call("session_create", "storage_error", userID) EXCEPT !.args = <<0>>]
               /\ UNCHANGED sessions
          ELSE /\ sessions' = Append(sessions, s)
               /\ last' = [Call("session_create", "ok", userID) EXCEPT
                              !.args = <<id>>,
                              !.obs = [session |-> s, at |-> now, afterExpired |-> FALSE,
                                       destroyed |-> FALSE]]
    /\ UNCHANGED <<authVars, rbacVars, inflight, expiredSeen>>

\* Service.Get, entered directly ("get") or from Service.Refresh ("refresh"):
\* session, err := s.repo.Get(ctx, sessionID)
GetFetch(p, op, id) ==
    /\ inflight[p] = NotCalling
    /\ LET s == SessionRepoGet(sessions, id)
       IN IF s = NoSession
          THEN /\ last' = SessionCall(op, "not_found", id, NoSession, now,
                                      id \in expiredSeen, FALSE)
               /\ UNCHANGED inflight
          ELSE /\ inflight' = [inflight EXCEPT ![p] = [NotCalling EXCEPT
                                  !.op = op, !.pc = "validate", !.id = id, !.session = s]]
               /\ UNCHANGED last
    /\ UNCHANGED <<authVars, rbacVars, sessions, expiredSeen>>

\* Service.Get: session.IsExpired(), session.IsIdle(s.idleTimeout); a valid
\* session is returned to the caller of Get, and to Refresh.
GetValidate(p) ==
    /\ inflight[p].pc = "validate"
    /\ LET c == inflight[p]
       IN IF IsExpired(c.session, now) \/ IsIdle(c.session, now, sessionIdleTimeout)
          THEN /\ inflight' = [inflight EXCEPT ![p].pc = "delete", ![p].at = now]
               /\ UNCHANGED last
          ELSE IF c.op = "get"
          THEN /\ inflight' = [inflight EXCEPT ![p] = NotCalling]
               /\ last' = SessionCall("get", "ok", c.id, c.session, now, FALSE, c.destroyed)
          ELSE /\ inflight' = [inflight EXCEPT ![p].pc = "stamp", ![p].at = now]
               /\ UNCHANGED last
    /\ UNCHANGED <<authVars, rbacVars, sessions, expiredSeen>>

\* Service.Get: s.repo.Delete(ctx, sessionID); return nil, ErrSessionExpired
GetDelete(p) ==
    /\ inflight[p].pc = "delete"
    /\ LET c == inflight[p]
       IN /\ sessions' = SessionRepoDelete(sessions, c.id)
          /\ expiredSeen' = expiredSeen \cup {c.id}
          /\ last' = SessionCall(c.op, "expired", c.id, c.session, c.at, FALSE, c.destroyed)
    /\ inflight' = [inflight EXCEPT ![p] = NotCalling]
    /\ UNCHANGED <<authVars, rbacVars>>

\* Service.Refresh: session.LastSeenAt = time.Now()
RefreshStamp(p) ==
    /\ inflight[p].pc = "stamp"
    /\ inflight' = [inflight EXCEPT ![p].pc = "update", ![p].session.last_seen_at = now]
    /\ UNCHANGED <<authVars, rbacVars, last, sessions, expiredSeen>>

\* Service.Refresh: return s.repo.Update(ctx, session)
RefreshUpdate(p) ==
    /\ inflight[p].pc = "update"
    /\ LET c     == inflight[p]
           found == SessionRepoGet(sessions, c.id) # NoSession
       IN /\ sessions' = SessionRepoUpdate(sessions, c.session)
          /\ last' = SessionCall("refresh", IF found THEN "ok" ELSE "not_found", c.id,
                                 c.session, c.at, FALSE, c.destroyed)
    /\ inflight' = [inflight EXCEPT ![p] = NotCalling]
    /\ UNCHANGED <<authVars, rbacVars, expiredSeen>>

\* Service.Destroy(sessionID)
Destroy(id) ==
    /\ sessions' = SessionRepoDelete(sessions, id)
    /\ inflight' = [p \in Callers |->
                       IF inflight[p].id = id
                       THEN [inflight[p] EXCEPT !.destroyed = TRUE] ELSE inflight[p]]
    /\ last' = [Call("destroy", "ok", 0) EXCEPT !.args = <<id>>]
    /\ UNCHANGED <<authVars, rbacVars, expiredSeen>>

\* Service.DestroyAllForUser(userID)
DestroyAllForUser(userID) ==
    /\ sessions' = SessionRepoDeleteByUserID(sessions, userID)
    /\ inflight' = [p \in Callers |->
                       IF /\ inflight[p].op # "none"
                          /\ inflight[p].session.user_id = userID
                       THEN [inflight[p] EXCEPT !.destroyed = TRUE] ELSE inflight[p]]
    /\ last' = Call("destroy_all_for_user", "ok", userID)
    /\ UNCHANGED <<authVars, rbacVars, expiredSeen>>

\* Service.CleanupExpired()
CleanupExpired ==
    /\ sessions' = SessionRepoDeleteExpired(sessions, now)
    /\ last' = Call("cleanup_expired", "ok", 0)
    /\ UNCHANGED <<authVars, rbacVars, inflight, expiredSeen>>

(***************************************************************************)
(* Authorization codes and tokens: the repositories of store/postgres      *)
(***************************************************************************)
NoCode  == [code |-> ""]   \* no row
NoToken == [token_hash |-> ""]

CodeValues  == {"code-1"}
TokenKinds  == {"access", "refresh"}
TokenHashes == {"th-1"}

InitOAuth ==
    /\ codes = [c \in CodeValues |-> NoCode]
    /\ tokens = [k \in TokenKinds |-> [h \in TokenHashes |-> NoToken]]
    /\ redeemed = [c \in CodeValues |-> 0]

\* AuthorizationCodeRepository.Create: INSERT INTO authorization_codes, the
\* used flag as the caller hands it over; code is UNIQUE.
CodeCreate(c, isUsed, expiresAt) ==
    /\ IF codes[c] # NoCode
       THEN /\ last' = [NoCall EXCEPT !.op = "code_create", !.result = "storage_error",
                                      !.args = <<c>>]
            /\ UNCHANGED <<codes, redeemed>>
       ELSE /\ codes' = [codes EXCEPT ![c] =
                            [code |-> c, is_used |-> isUsed,
                             used_at |-> IF isUsed THEN now ELSE Nil,
                             expires_at |-> expiresAt]]
            /\ redeemed' = [redeemed EXCEPT ![c] = 0]
            /\ last' = [NoCall EXCEPT !.op = "code_create", !.result = "ok", !.args = <<c>>]
    /\ UNCHANGED <<authVars, rbacVars, sessVars, tokens, audit>>

\* AuthorizationCodeRepository.GetByCode
CodeGetByCode(c) ==
    /\ last' = [NoCall EXCEPT !.op = "get_by_code",
                              !.result = IF codes[c] = NoCode THEN "code_not_found" ELSE "ok",
                              !.args = <<c>>, !.obs = codes[c]]
    /\ UNCHANGED <<authVars, rbacVars, sessVars, oauthVars, audit>>

\* UPDATE authorization_codes SET is_used = NOT is_used
CodeMarkToggled(cs, c, t) ==
    IF cs[c] = NoCode THEN cs
    ELSE [cs EXCEPT ![c].is_used = ~cs[c].is_used, ![c].used_at = t]

\* UPDATE authorization_codes SET is_used = true, used_at = NOW() WHERE code = $1
CodeMarkUsed(cs, c, t) ==
    IF cs[c] = NoCode THEN cs
    ELSE [cs EXCEPT ![c].is_used = TRUE, ![c].used_at = t]

\* AuthorizationCodeRepository.MarkAsUsed: ErrCodeNotFound when no row is
\* affected, nil otherwise. One statement: calls of concurrent redemptions
\* take effect one after the other.
MarkAsUsed(c) ==
    /\ codes' = CodeMarkUsed(codes, c, now)
    /\ IF codes[c] = NoCode
       THEN /\ last' = [NoCall EXCEPT !.op = "mark_as_used", !.result = "code_not_found",
                                      !.args = <<c>>, !.obs = NoCode]
            /\ UNCHANGED redeemed
       ELSE /\ last' = [NoCall EXCEPT !.op = "mark_as_used", !.result = "ok",
                                      !.args = <<c>>, !.obs = codes[c]]
            /\ redeemed' = [redeemed EXCEPT ![c] =
                               IF @ < MaxRedemptions THEN @ + 1 ELSE @]
    /\ UNCHANGED <<authVars, rbacVars, sessVars, tokens, audit>>

\* AuthorizationCodeRepository.Delete
CodeDelete(c) ==
    /\ codes' = [codes EXCEPT ![c] = NoCode]
    /\ last' = [NoCall EXCEPT !.op = "code_delete", !.result = "ok", !.args = <<c>>]
    /\ UNCHANGED <<authVars, rbacVars, sessVars, tokens, redeemed, audit>>

\* AuthorizationCodeRepository.DeleteExpired: WHERE expires_at < NOW()
CodeDeleteExpired ==
    /\ codes' = [c \in DOMAIN codes |->
                    IF codes[c] # NoCode /\ codes[c].expires_at < now THEN NoCode ELSE codes[c]]
    /\ last' = [NoCall EXCEPT !.op = "code_delete_expired", !.result = "ok"]
    /\ UNCHANGED <<authVars, rbacVars, sessVars, tokens, redeemed, audit>>

\* AccessTokenRepository.Create / RefreshTokenRepository.Create: token_hash is UNIQUE.
TokenCreate(k, h, isRevoked, expiresAt) ==
    /\ IF tokens[k][h] # NoToken
       THEN /\ last' = [NoCall EXCEPT !.op = "token_create", !.result = "storage_error",
                                      !.args = <<k, h>>]
            /\ UNCHANGED tokens
       ELSE /\ tokens' = [tokens EXCEPT ![k][h] =
                             [token_hash |-> h, is_revoked |-> isRevoked,
                              revoked_at |-> IF isRevoked THEN now ELSE Nil,
                              expires_at |-> expiresAt]]
            /\ last' = [NoCall EXCEPT !.op = "token_create", !.result = "ok", !.args = <<k, h>>]
    /\ UNCHANGED <<authVars, rbacVars, sessVars, codes, redeemed, audit>>

\* AccessTokenRepository.GetByTokenHash / RefreshTokenRepository.GetByTokenHash
TokenGetByTokenHash(k, h) ==
    /\ last' = [NoCall EXCEPT !.op = "get_by_token_hash",
                              !.result = IF tokens[k][h] = NoToken
                                         THEN "token_not_found" ELSE "ok",
                              !.args = <<k, h>>, !.obs = tokens[k][h]]
    /\ UNCHANGED <<authVars, rbacVars, sessVars, oauthVars, audit>>

\* AccessTokenRepository.Revoke / RefreshTokenRepository.Revoke:
\* UPDATE ... SET is_revoked = true, revoked_at = NOW() WHERE token_hash = $1
TokenRevoke(k, h) ==
    /\ IF tokens[k][h] = NoToken
       THEN /\ last' = [NoCall EXCEPT !.op = "revoke", !.result = "token_not_found",
                                      !.args = <<k, h>>, !.obs = NoToken]
            /\ UNCHANGED tokens
       ELSE /\ tokens' = [tokens EXCEPT ![k][h].is_revoked = TRUE, ![k][h].revoked_at = now]
            /\ last' = [NoCall EXCEPT !.op = "revoke", !.result = "ok",
                                      !.args = <<k, h>>, !.obs = tokens[k][h]]
    /\ UNCHANGED <<authVars, rbacVars, sessVars, codes, redeemed, audit>>

\* AccessTokenRepository.DeleteExpired / RefreshTokenRepository.DeleteExpired
TokenDeleteExpired(k) ==
    /\ tokens' = [tokens EXCEPT ![k] =
                     [h \in TokenHashes |->
                         IF tokens[k][h] # NoToken /\ tokens[k][h].expires_at < now
                         THEN NoToken ELSE tokens[k][h]]]
    /\ last' = [NoCall EXCEPT !.op = "token_delete_expired", !.result = "ok", !.args = <<k>>]
    /\ UNCHANGED <<authVars, rbacVars, sessVars, codes, redeemed, audit>>

(***************************************************************************)
(* user.Service.Authenticate, call by call and statement by statement      *)
(***************************************************************************)
LoginCallers == 1..MaxLogins

NoLogin == [pc |-> "idle"]

InitLogins ==
    logins = [calls  |-> [c \in LoginCallers |-> NoLogin],
              made   |-> [u \in UserIds |-> 0],
              streak |-> [u \in UserIds |-> 0]]

OthersIdle(c) == \A d \in LoginCallers \ {c} : logins.calls[d] = NoLogin

\* The *User the call holds: the relational repository scanned a copy, the
\* in-memory repository handed out the stored object itself.
HeldUser(call) == IF repoImpl = "mock" THEN MockUser(users[call.user.id]) ELSE call.user

\* A call that returns before the password is verified.
LoginReturns(c, out) ==
    /\ last' = [NoCall EXCEPT !.op = "authenticate", !.result = out.result,
                              !.args = <<c>>, !.emitted = out.events]
    /\ logins' = IF out.result = "account_locked"
                 THEN [logins EXCEPT !.streak = [u \in UserIds |-> 0]]
                 ELSE logins
    /\ UNCHANGED <<repoImpl, users, credentials, now, run, rbacVars>>

\* Authenticate up to hasher.Verify: GetByHash, the lockout check,
\* GetCredentials, Verify.
AuthenticateFetch(c, e, p) ==
    /\ logins.calls[c] = NoLogin
    /\ \E emailHash \in {ComputeEmailHash(hmacKey, e)} :
       \E user \in {GetByHash(emailHash)} :
          IF \/ user = NoUser
             \/ IsLockedOut(user, now)
             \/ credentials[user.id] = NoCred
          THEN LoginReturns(c, AuthenticateFor(emailHash, user, p))
          ELSE /\ logins' = [logins EXCEPT !.calls[c] =
                                [pc |-> "verified", user |-> user,
                                 valid |-> Verify(p, credentials[user.id]),
                                 alone |-> OthersIdle(c)]]
               /\ last' = NoCall
               /\ UNCHANGED <<repoImpl, users, credentials, now, run, rbacVars>>

\* newAttempts := user.FailedLoginAttempts + 1 and newLockedUntil after a
\* failed Verify; the guard of the reset after a successful one.
AuthenticateCount(c) ==
    /\ logins.calls[c].pc = "verified"
    /\ \E call \in {logins.calls[c]} :
       \E held \in {HeldUser(call)} :
       \E f \in {FailedLockout(held, now)} :
          /\ ~call.valid => f.attempts <= MaxAttempts
          /\ logins' = [logins EXCEPT !.calls[c] =
                [call EXCEPT !.pc = "counted"] @@
                (IF ~call.valid
                 THEN [write |-> TRUE, attempts |-> f.attempts, locked_until |-> f.locked_until]
                 ELSE [write |-> held.failed_login_attempts > 0 \/ held.locked_until # Nil,
                       attempts |-> 0, locked_until |-> Nil])]
    /\ last' = NoCall
    /\ UNCHANGED <<repoImpl, users, credentials, now, run, rbacVars>>

\* repo.UpdateLockout, the audit events and the return of Authenticate.
AuthenticateStore(c) ==
    /\ logins.calls[c].pc = "counted"
    /\ \E call \in {logins.calls[c]} :
       \E u \in {call.user.id} :
          /\ users' = IF call.write
                      THEN UpdateLockout(users, u, call.attempts, call.locked_until)
                      ELSE users
          /\ run' = [run EXCEPT ![u] = NoRun]
          /\ last' = [NoCall EXCEPT
                !.op = "authenticate", !.args = <<c>>, !.user = u,
                !.wrong = ~call.valid,
                !.result = IF call.valid THEN "ok" ELSE "invalid_credentials",
                !.emitted =
                    IF call.valid
                    THEN <<Event("login_success", 0, u, "login", "", 0, u)>>
                    ELSE (IF call.locked_until # Nil
                          THEN <<Event("user_locked", 0, u, "login", "", call.attempts, <<>>)>>
                          ELSE <<>>)
                         \o <<Event("login_failed", 0, u, "login", "invalid_password",
                                    call.attempts, <<>>)>>]
          /\ logins' = [calls  |-> [logins.calls EXCEPT ![c] = NoLogin],
                        made   |-> [logins.made EXCEPT ![u] =
                                       IF call.valid THEN (IF call.write THEN 0 ELSE @)
                                       ELSE IF @ < MaxAttempts THEN @ + 1 ELSE @],
                        streak |-> [logins.streak EXCEPT ![u] =
                                       IF /\ ~call.valid
                                          /\ call.locked_until = Nil
                                          /\ call.alone
                                          /\ OthersIdle(c)
                                       THEN (IF @ < lockoutMaxAttempts THEN @ + 1 ELSE @)
                                       ELSE 0]]
    /\ UNCHANGED <<repoImpl, credentials, now, rbacVars>>

(***************************************************************************)
(* client.Service                                                          *)
(***************************************************************************)
\* The closed set of OIDC scopes.
OIDCScopes == {"openid", "profile", "email", "address", "phone", "offline_access"}

\* url.ParseRequestURI: an absolute URI or an absolute path parses, a host
\* with no scheme and the empty string do not.
ClientURIs == {"", "https://rp.example", "rp.example"}
RedirectURILists == {<<>>, <<"https://rp.example/cb">>, <<"https://rp.example/cb", "rp.example/cb">>}
ParseRequestURI(uri) == uri \in {"https://rp.example", "https://rp.example/cb", "/cb"}

AllowedScopeLists ==
    {<<>>, <<"openid">>, <<"openid", "profile">>, <<"profile", "email">>, <<"openid", "admin">>}

\* The client specs passed to RegisterClient and UpdateClient.
ClientSpecs ==
    [tenant_id : TenantIds, client_uri : ClientURIs, redirect_uris : RedirectURILists,
     allowed_scopes : AllowedScopeLists]

\* validateClient: "ok" or the error it returns.
validateClient(c) ==
    IF c.client_uri # "" /\ ~ParseRequestURI(c.client_uri) THEN "invalid_client_uri"
    ELSE IF \E i \in DOMAIN c.redirect_uris : ~ParseRequestURI(c.redirect_uris[i])
    THEN "invalid_redirect_uri"
    ELSE "ok"

ClientRow(cid, c, deletedAt) ==
    [id |-> cid, tenant_id |-> c.tenant_id, deleted_at |-> deletedAt,
     client_uri |-> c.client_uri, redirect_uris |-> c.redirect_uris,
     allowed_scopes |-> c.allowed_scopes]

ClientEvent(type, tenantID, actorID, cid) ==
    [Event(type, tenantID, actorID, "client", "", 0, cid) EXCEPT !.metadata = [client_id |-> cid]]

\* RegisterClient(tenantID, userID, c): validateClient, ClientRepository.Create
\* (oauth2_clients references tenants(id)), client_created.
RegisterClient(tenantID, userID, c) ==
    /\ \E cid \in ClientIds : clients[cid] = NoClient
    /\ IF validateClient(c) # "ok"
       THEN /\ last' = [NoCall EXCEPT !.op = "register_client", !.result = validateClient(c),
                                      !.args = <<c>>]
            /\ UNCHANGED clients
       ELSE IF tenants[c.tenant_id] = NoTenant
       THEN /\ last' = [NoCall EXCEPT !.op = "register_client", !.result = "storage_error",
                                      !.args = <<c>>]
            /\ UNCHANGED clients
       ELSE /\ clients' = [clients EXCEPT ![NewClientID] = ClientRow(NewClientID, c, Nil)]
            /\ last' = [NoCall EXCEPT !.op = "register_client", !.result = "ok", !.args = <<c>>,
                                      !.emitted = <<ClientEvent("client_created", tenantID,
                                                                userID, NewClientID)>>]
    /\ UNCHANGED <<authVars, tenants, members, roles, assignments, sessVars, oauthVars, audit>>

\* UpdateClient(c, actorID): validateClient, ClientRepository.Update (WHERE id
\* = $1 AND tenant_id = $15 AND deleted_at IS NULL), client_updated.
UpdateClient(cid, c, actorID) ==
    /\ IF validateClient(c) # "ok"
       THEN /\ last' = [NoCall EXCEPT !.op = "update_client", !.result = validateClient(c),
                                      !.args = <<c>>]
            /\ UNCHANGED clients
       ELSE IF \/ clients[cid] = NoClient
               \/ clients[cid].tenant_id # c.tenant_id
               \/ clients[cid].deleted_at # Nil
       THEN /\ last' = [NoCall EXCEPT !.op = "update_client", !.result = "client_not_found",
                                      !.args = <<c>>]
            /\ UNCHANGED clients
       ELSE /\ clients' = [clients EXCEPT ![cid] = ClientRow(cid, c, Nil)]
            /\ last' = [NoCall EXCEPT !.op = "update_client", !.result = "ok", !.args = <<c>>,
                                      !.emitted = <<ClientEvent("client_updated", c.tenant_id,
                                                                actorID, cid)>>]
    /\ UNCHANGED <<authVars, tenants, members, roles, assignments, sessVars, oauthVars, audit>>

\* DeleteClient(tenantID, id, actorID): GetByID, ClientRepository.Delete
\* (a soft delete), client_deleted.
DeleteClient(tenantID, cid, actorID) ==
    /\ IF \/ clients[cid] = NoClient
          \/ clients[cid].tenant_id # tenantID
          \/ clients[cid].deleted_at # Nil
       THEN /\ last' = [NoCall EXCEPT !.op = "delete_client", !.result = "client_not_found"]
            /\ UNCHANGED clients
       ELSE /\ clients' = [clients EXCEPT ![cid].deleted_at = now]
            /\ last' = [NoCall EXCEPT !.op = "delete_client", !.result = "ok",
                                      !.emitted = <<ClientEvent("client_deleted", tenantID,
                                                                actorID, cid)>>]
    /\ UNCHANGED <<authVars, tenants, members, roles, assignments, sessVars, oauthVars, audit>>

(***************************************************************************)
(* The encoded password hash, character by character: user.PasswordHasher  *)
(* and password.Hasher                                                     *)
(***************************************************************************)
\* An encoded hash is a sequence of pieces: literal text, a decimal number,
\* or a base64 text without "$", "=" or white space.
Lit(c)  == [k |-> "lit", v |-> c]
Num(n)  == [k |-> "int", v |-> n]
Text(b) == [k |-> "b64", v |-> b]
VerbD   == [k |-> "verb", v |-> "d"]
VerbS   == [k |-> "verb", v |-> "s"]

\* NewPasswordHasher / NewHasher arguments.
HasherParams ==
    {[memory |-> 65536, iterations |-> 3, parallelism |-> 4, saltLength |-> 16, keyLength |-> 32],
     [memory |-> 19456, iterations |-> 2, parallelism |-> 1, saltLength |-> 16, keyLength |-> 32],
     [memory |-> 65536, iterations |-> 3, parallelism |-> 4, saltLength |-> 8, keyLength |-> 16]}

\* rand.Read(salt): saltLength random bytes.
SaltsOf(n) == IF n = 0 THEN {<<>>} ELSE {<<"s1", n>>, <<"s2", n>>}

\* argon2.IDKey(password, salt, time, memory, threads, keyLen): keyLen bytes
\* that depend on every argument.
IDKey(password, salt, time, memory, threads, keyLen) ==
    IF keyLen = 0 THEN <<>>
    ELSE <<"argon2id", password, salt, time, memory, threads, keyLen>>

ByteLen(bytes) == IF bytes = <<>> THEN 0 ELSE bytes[Len(bytes)]

\* base64.RawStdEncoding.EncodeToString: no bytes give the empty string.
EncodeToString(bytes) == IF bytes = <<>> THEN <<>> ELSE <<Text(bytes)>>

\* base64.RawStdEncoding.DecodeString: the empty string and a base64 text
\* decode; a string with "$", "=" or "," in it does not.
DecodeString(str) ==
    IF str = <<>> THEN [err |-> FALSE, bytes |-> <<>>]
    ELSE IF Len(str) = 1 /\ str[1].k = "b64" THEN [err |-> FALSE, bytes |-> str[1].v]
    ELSE [err |-> TRUE, bytes |-> <<>>]

\* The sections of a string between "$" characters, empty sections dropped.
RECURSIVE Sections(_, _, _)
Sections(str, current, done) ==
    IF str = <<>>
    THEN IF current = <<>> THEN done ELSE Append(done, current)
    ELSE IF Head(str).k = "lit" /\ Head(str).v = "$"
    THEN Sections(Tail(str), <<>>, IF current = <<>> THEN done ELSE Append(done, current))
    ELSE Sections(Tail(str), Append(current, Head(str)), done)

\* The longest prefix of a string without white space.
RECURSIVE NonSpacePrefix(_)
NonSpacePrefix(str) ==
    IF str = <<>> \/ (Head(str).k = "lit" /\ Head(str).v = " ") THEN <<>>
    ELSE <<Head(str)>> \o NonSpacePrefix(Tail(str))

\* fmt.Sscanf(str, format, ...): literal text of the format must match the
\* input, %d reads a decimal number, %s reads up to the next white space or
\* the end of the input; the input left over when the format ends is ignored.
RECURSIVE Sscanf(_, _, _)
Sscanf(str, format, vals) ==
    IF format = <<>> THEN [err |-> FALSE, vals |-> vals]
    ELSE IF str = <<>> THEN [err |-> TRUE, vals |-> vals]
    ELSE IF Head(format) = VerbD
    THEN IF Head(str).k = "int"
         THEN Sscanf(Tail(str), Tail(format), Append(vals, Head(str).v))
         ELSE [err |-> TRUE, vals |-> vals]
    ELSE IF Head(format) = VerbS
    THEN IF NonSpacePrefix(str) = <<>>
         THEN [err |-> TRUE, vals |-> vals]
         ELSE Sscanf(SubSeq(str, Len(NonSpacePrefix(str)) + 1, Len(str)), Tail(format),
                     Append(vals, NonSpacePrefix(str)))
    ELSE IF Head(str) = Head(format)
    THEN Sscanf(Tail(str), Tail(format), vals)
    ELSE [err |-> TRUE, vals |-> vals]

\* The comparison at the end of both Verify methods.
CompareHashes(password, salt, time, memory, threads, expectedHash) ==
    [valid |-> IDKey(password, salt, time, memory, threads, ByteLen(expectedHash)) = expectedHash,
     err   |-> FALSE]

VerifyError == [valid |-> FALSE, err |-> TRUE]

\* user.PasswordHasher.Hash: "$argon2id$v=%d$m=%d,t=%d,p=%d$%s$%s" with
\* argon2.Version, which is 19
PasswordHasherHash(h, password, salt) ==
    <<Lit("$"), Lit("argon2id"), Lit("$"), Lit("v="), Num(19), Lit("$"),
      Lit("m="), Num(h.memory), Lit(",t="), Num(h.iterations), Lit(",p="), Num(h.parallelism),
      Lit("$")>>
    \o EncodeToString(salt) \o <<Lit("$")>>
    \o EncodeToString(IDKey(password, salt, h.iterations, h.memory, h.parallelism, h.keyLength))

\* user.PasswordHasher.Verify
PasswordHasherVerify(password, encodedHash) ==
    LET sections == Sections(encodedHash, <<>>, <<>>) IN
    IF Len(sections) # 5 \/ sections[1] # <<Lit("argon2id")>> THEN VerifyError
    ELSE LET version == Sscanf(sections[2], <<Lit("v="), VerbD>>, <<>>)
             params  == Sscanf(sections[3],
                               <<Lit("m="), VerbD, Lit(",t="), VerbD, Lit(",p="), VerbD>>, <<>>)
             salt    == DecodeString(sections[4])
             hash    == DecodeString(sections[5])
         IN IF version.err \/ params.err \/ salt.err \/ hash.err THEN VerifyError
            ELSE CompareHashes(password, salt.bytes, params.vals[2], params.vals[1],
                               params.vals[3], hash.bytes)

\* password.Hasher.Hash: "=%d=%d,t=%d,p=%d$%s$%s"
HasherHash(h, password, salt) ==
    <<Lit("="), Num(19), Lit("="), Num(h.memory), Lit(",t="), Num(h.iterations),
      Lit(",p="), Num(h.parallelism), Lit("$")>>
    \o EncodeToString(salt) \o <<Lit("$")>>
    \o EncodeToString(IDKey(password, salt, h.iterations, h.memory, h.parallelism, h.keyLength))

\* password.Hasher.Verify: one Sscanf over the whole string.
HasherVerify(password, encodedHash) ==
    LET scan == Sscanf(encodedHash,
                       <<Lit("="), VerbD, Lit("="), VerbD, Lit(",t="), VerbD, Lit(",p="), VerbD,
                         Lit("$"), VerbS, Lit("$"), VerbS>>, <<>>)
    IN IF scan.err THEN VerifyError
       ELSE LET salt == DecodeString(scan.vals[5])
                hash == DecodeString(scan.vals[6])
            IN IF salt.err \/ hash.err THEN VerifyError
               ELSE CompareHashes(password, salt.bytes, scan.vals[3], scan.vals[2],
                                  scan.vals[4], hash.bytes)

HasherKinds == {"user.PasswordHasher", "password.Hasher"}

\* hasher.Hash(password) of either hasher; the encoded string is kept.
HashPassword(kind, h, password) ==
    /\ \E salt \in SaltsOf(h.saltLength) :
          last' = [NoCall EXCEPT !.op = "hash", !.result = "ok",
                                 !.args = <<kind, h, password>>,
                                 !.obs = IF kind = "user.PasswordHasher"
                                         THEN PasswordHasherHash(h, password, salt)
                                         ELSE HasherHash(h, password, salt)]
    /\ UNCHANGED <<authVars, rbacVars, sessVars, oauthVars, audit>>

\* hasher.Verify(password, encodedHash) on the string hashed last.
VerifyPassword(password) ==
    /\ last.op \in {"hash", "verify"}
    /\ \E out \in {IF last.args[1] = "user.PasswordHasher"
                   THEN PasswordHasherVerify(password, last.obs)
                   ELSE HasherVerify(password, last.obs)} :
          last' = [last EXCEPT !.op = "verify",
                               !.result = IF out.err THEN "error"
                                          ELSE IF out.valid THEN "true" ELSE "false",
                               !.args = <<last.args[1], last.args[2], last.args[3], password>>]
    /\ UNCHANGED <<authVars, rbacVars, sessVars, oauthVars, audit>>

(***************************************************************************)
(* audit.SlogLogger, audit.RepositoryLogger and the audit_events table     *)
(***************************************************************************)
\* The characters of a metadata key.
Chars(key) ==
    CASE key = "password" -> <<"p", "a", "s", "s", "w", "o", "r", "d">>
      [] key = "API_KEY" -> <<"A", "P", "I", "_", "K", "E", "Y">>
      [] key = "target_hash" -> <<"t", "a", "r", "g", "e", "t", "_", "h", "a", "s", "h">>
      [] key = "Authorization" -> <<"A", "u", "t", "h", "o", "r", "i", "z", "a", "t", "i", "o", "n">>
      [] key = "reason" -> <<"r", "e", "a", "s", "o", "n">>
      [] key = "nickname" -> <<"n", "i", "c", "k", "n", "a", "m", "e">>
      [] key = "monkey" -> <<"m", "o", "n", "k", "e", "y">>
      [] key = "tenant_id" -> <<"t", "e", "n", "a", "n", "t", "_", "i", "d">>
      [] key = "tenant_name" -> <<"t", "e", "n", "a", "n", "t", "_", "n", "a", "m", "e">>
      [] key = "owner_id" -> <<"o", "w", "n", "e", "r", "_", "i", "d">>
      [] key = "changes" -> <<"c", "h", "a", "n", "g", "e", "s">>
      [] key = "attempts" -> <<"a", "t", "t", "e", "m", "p", "t", "s">>
      [] key = "client_id" -> <<"c", "l", "i", "e", "n", "t", "_", "i", "d">>
      [] key = "client_name" -> <<"c", "l", "i", "e", "n", "t", "_", "n", "a", "m", "e">>
      [] key = "actor_id" -> <<"a", "c", "t", "o", "r", "_", "i", "d">>
      [] key = "user_id" -> <<"u", "s", "e", "r", "_", "i", "d">>

\* strings.Contains(s, sub)
Contains(s, sub) ==
    \E i \in 1..(Len(s) - Len(sub) + 1) : SubSeq(s, i, i + Len(sub) - 1) = sub

\* The sensitive keywords of isSecret.
Secrets ==
    {<<"p", "a", "s", "s", "w", "o", "r", "d">>,
     <<"s", "e", "c", "r", "e", "t">>,
     <<"t", "o", "k", "e", "n">>,
     <<"k", "e", "y">>,
     <<"a", "u", "t", "h", "o", "r", "i", "z", "a", "t", "i", "o", "n">>,
     <<"h", "a", "s", "h">>,
     <<"c", "r", "e", "d", "e", "n", "t", "i", "a", "l">>,
     <<"p", "r", "i", "v", "a", "t", "e">>,
     <<"a", "p", "i", "_", "k", "e", "y">>}

\* A check that compares the key as it is written.
isSecretCaseSensitive(key) ==
    \E sub \in Secrets : Contains(Chars(key), sub)

\* isSecret(key): strings.Contains(strings.ToLower(key), s) for one of the keywords
isSecret(key) ==
    \E sub \in Secrets : Contains(ToLower(Chars(key)), sub)

\* SlogLogger.Log, "Flatten metadata": the value of a secret key is replaced.
Redacted(metadata) ==
    [k \in DOMAIN metadata |-> IF isSecret(k) THEN "[REDACTED]" ELSE metadata[k]]

\* SlogLogger.Log: the AUDIT_EVENT record written to the structured log.
SlogLoggerLog(event) ==
    [msg |-> "AUDIT_EVENT", event |-> [event EXCEPT !.metadata = Redacted(event.metadata)]]

\* The error record RepositoryLogger.Log writes when persisting failed.
PersistError == [msg |-> "failed to persist audit event", event |-> <<>>]

\* An INSERT that takes the place of the rows stored before.
AuditRepositoryOverwrite(rows, event) == <<event>>

\* AuditRepository.Log: INSERT INTO audit_events under a generated id.
AuditRepositoryLog(rows, event) == Append(rows, event)

\* A logger that persists first and gives up when that fails.
RepositoryLoggerPersistFirst(a, event, persistFails) ==
    IF persistFails
    THEN [slog |-> Append(a.slog, PersistError), events |-> a.events]
    ELSE [slog   |-> Append(a.slog, SlogLoggerLog(event)),
          events |-> AuditRepositoryLog(a.events, event)]

\* RepositoryLogger.Log: l.slog.Log(ctx, event), then l.repo.Log(ctx, event),
\* whose error is logged; nothing is returned to the caller.
RepositoryLoggerLog(a, event, persistFails) ==
    IF persistFails
    THEN [slog   |-> Append(Append(a.slog, SlogLoggerLog(event)), PersistError),
          events |-> a.events]
    ELSE [slog   |-> Append(a.slog, SlogLoggerLog(event)),
          events |-> AuditRepositoryLog(a.events, event)]

\* The events of one operation, handed to the logger in order.
RECURSIVE LogAll(_, _, _)
LogAll(a, events, persistFails) ==
    IF events = <<>> THEN a
    ELSE LogAll(RepositoryLoggerLog(a, Head(events), persistFails), Tail(events), persistFails)

InitAudit == audit = [slog |-> <<>>, events |-> <<>>]

InitAuth ==
    /\ repoImpl \in {"postgres", "mock"}
    /\ users = [i \in 1..MaxUsers |-> NoUser]
    /\ credentials = [i \in 1..MaxUsers |-> NoCred]
    /\ now = 0
    /\ last = NoCall
    /\ run = [i \in 1..MaxUsers |-> NoRun]
    /\ tenants = [t \in 1..MaxTenants |-> NoTenant]
    /\ members = {}
    /\ clients = [c \in ClientIds |-> NoClient]
    /\ roles = SeedRoles
    /\ assignments = EmptyBag
    /\ InitSessions
    /\ InitOAuth
    /\ InitAudit
    /\ InitLogins

NextAuth ==
    /\ UNCHANGED <<sessVars, oauthVars, audit>>
    /\ \/ \E e \in Emails : ProvisionIdentity(e)
       \/ \E u \in UserIds, p \in Passwords : AddPassword(u, p)
       \/ \E u \in UserIds, p \in Passwords : SetPassword(u, p)
       \/ \E e \in Emails, p \in Passwords : Authenticate(e, p)
       \/ Tick

SpecAuth == InitAuth /\ [][NextAuth]_vars

InitRBAC ==
    /\ repoImpl = "postgres"
    /\ users = [i \in 1..MaxPrincipals |-> NoUser]
    /\ credentials = [i \in 1..MaxPrincipals |-> NoCred]
    /\ now = 0
    /\ last = NoCall
    /\ run = [i \in 1..MaxPrincipals |-> NoRun]
    /\ tenants = [t \in 1..MaxTenants |-> NoTenant]
    /\ members = {}
    /\ clients = [c \in ClientIds |-> NoClient]
    /\ roles = SeedRoles
    /\ assignments = EmptyBag
    /\ InitSessions
    /\ InitOAuth
    /\ InitAudit
    /\ InitLogins

\* The scope contexts a grant is made for: identifiers of tenants or clients.
ContextIds == TenantIds \cup {UnknownTenant}

GrantRoleIds == {RoleIDPlatformAdmin, RoleIDMember, CustomRoleID}

\* The repositories behind authz.Service: roles are created and deleted,
\* assignments granted and revoked.
NextAuthz ==
    /\ UNCHANGED <<sessVars, oauthVars, audit>>
    /\ \/ \E e \in Emails : ProvisionIdentity(e)
       \/ \E perms \in PermissionLists : CreateRole(perms)
       \/ DeleteRole(CustomRoleID)
       \/ \E u \in UserIds, r \in GrantRoleIds, sc \in Scopes, ctx \in ContextIds \cup {Nil} :
               Grant(u, r, sc, ctx)
       \/ \E u \in UserIds, r \in GrantRoleIds, sc \in Scopes, ctx \in ContextIds \cup {Nil} :
               Revoke(u, r, sc, ctx)

SpecAuthz == InitRBAC /\ [][NextAuthz]_vars

\* authz.Service.HasPermission as a call: it returns true or false with a nil
\* error whatever the assignments and roles are (an error of ListForUser is
\* the only one it returns).
CheckPermission(u, scope, ctx, permission) ==
    /\ last' = [NoCall EXCEPT !.op = "has_permission",
                              !.args = <<u, scope, ctx, permission>>,
                              !.result = IF HasPermission(u, scope, ctx, permission)
                                         THEN "true" ELSE "false"]
    /\ UNCHANGED <<authVars, rbacVars>>

\* The rows an AssignmentRepository can hand to HasPermission for user 1: the
\* interface promises nothing about them, so a tenant or client row can come
\* without context, a platform row with one, and a row can name a role that
\* RoleRepository.GetByID does not find.
AssignmentRows ==
    {AssignmentRow(1, r, sc, ctx) :
        r \in {RoleIDPlatformAdmin, RoleIDMember, CustomRoleID},
        sc \in Scopes, ctx \in {Nil, 1}}

\* authz.Service over repositories holding at most MaxAssignments such rows;
\* the role created at run time is missing or lists one permission.
InitPermission ==
    /\ repoImpl = "mock"
    /\ users = [i \in 1..MaxPrincipals |-> NoUser]
    /\ credentials = [i \in 1..MaxPrincipals |-> NoCred]
    /\ now = 0
    /\ last = NoCall
    /\ run = [i \in 1..MaxPrincipals |-> NoRun]
    /\ tenants = [t \in 1..MaxTenants |-> NoTenant]
    /\ members = {}
    /\ clients = [c \in ClientIds |-> NoClient]
    /\ roles \in {SeedRoles,
                  [SeedRoles EXCEPT ![CustomRoleID] =
                      [id |-> CustomRoleID, name |-> "custom", scope |-> ScopeTenant,
                       permissions |-> <<"tenant:view">>]]}
    /\ assignments \in {SetToBag(rows) :
                            rows \in {S \in SUBSET AssignmentRows :
                                         Cardinality(S) <= MaxAssignments}}
    /\ InitSessions
    /\ InitOAuth
    /\ InitAudit
    /\ InitLogins

NextPermission ==
    /\ UNCHANGED <<sessVars, oauthVars, audit>>
    /\ \E u \in UserIds, sc \in Scopes, ctx \in {Nil, 1, UnknownTenant}, p \in Permissions :
           CheckPermission(u, sc, ctx, p)

SpecPermission == InitPermission /\ [][NextPermission]_vars

OwnerEmails    == {<<>>, EmailAUpper, EmailShort}
OwnerPasswords == {"", "secure-password", "short"}
RoleNameArgs   == {RoleTenantOwner, RoleTenantMember, RolePlatformAdmin}

\* tenant.Service with the repositories it is built on.
NextTenant ==
    /\ UNCHANGED <<sessVars, oauthVars, audit>>
    /\ \/ \E e \in Emails : ProvisionIdentity(e)
       \/ \E u \in UserIds, t \in TenantArgs : Grant(u, RoleIDMember, ScopeTenant, t)
       \/ \E u \in UserIds : Grant(u, RoleIDPlatformAdmin, ScopePlatform, Nil)
       \/ \E t \in TenantArgs, u \in UserIds : AddMember(t, u)
       \/ \E t \in TenantArgs, u \in UserIds : RemoveMember(t, u)
       \/ \E t \in TenantArgs : CreateClient(t)
       \/ \E name \in TenantNames, e \in OwnerEmails, p \in OwnerPasswords, by \in UserIds :
               CreateTenant(name, e, p, by, NoFault)
       \/ \E t \in TenantArgs, u \in UserIds, rn \in RoleNameArgs, by \in UserIds :
               AssignRole(t, u, rn, by, NoFault)
       \/ \E t \in TenantArgs, u \in UserIds, rn \in RoleNameArgs, by \in UserIds :
               RevokeRole(t, u, rn, by)
       \/ \E t \in TenantArgs, by \in UserIds : DeleteTenant(t, by, NoFault)

SpecTenant == InitRBAC /\ [][NextTenant]_vars

\* The store call a fault is injected at: none, or one of the calls issued.
AssignRoleFaults   == 0..Len(AssignRoleCalls)
DeleteTenantFaults == 0..Len(DeleteTenantCalls)

\* tenant.Service over a store whose calls can fail.
NextCascade ==
    /\ UNCHANGED <<sessVars, oauthVars, audit>>
    /\ \/ \E e \in Emails : ProvisionIdentity(e)
       \/ \E t \in TenantArgs : CreateClient(t)
       \/ \E name \in TenantNames, e \in OwnerEmails, by \in UserIds, f \in AssignRoleFaults :
               CreateTenant(name, e, "", by, f)
       \/ \E t \in TenantArgs, u \in UserIds, rn \in RoleNameArgs, by \in UserIds,
             f \in AssignRoleFaults :
               AssignRole(t, u, rn, by, f)
       \/ \E t \in TenantArgs, by \in UserIds, f \in DeleteTenantFaults : DeleteTenant(t, by, f)

SpecCascade == InitRBAC /\ [][NextCascade]_vars

\* Two valid names, one of them also with a leading space, and the empty name.
NameAcme       == <<"a", "c", "m", "e">>
NameBeta       == <<"b", "e", "t", "a">>
TenantNameArgs == {NameAcme, NameAcmePadded, NameBeta, <<>>}

\* The schema with room for MaxNamedTenants tenants.
InitNames ==
    /\ repoImpl = "postgres"
    /\ users = [i \in 1..MaxPrincipals |-> NoUser]
    /\ credentials = [i \in 1..MaxPrincipals |-> NoCred]
    /\ now = 0
    /\ last = NoCall
    /\ run = [i \in 1..MaxPrincipals |-> NoRun]
    /\ tenants = [t \in 1..MaxNamedTenants |-> NoTenant]
    /\ members = {}
    /\ clients = [c \in ClientIds |-> NoClient]
    /\ roles = SeedRoles
    /\ assignments = EmptyBag
    /\ InitSessions
    /\ InitOAuth
    /\ InitAudit
    /\ InitLogins

\* tenant.Service: tenants are created, renamed and deleted.
NextNames ==
    /\ UNCHANGED <<sessVars, oauthVars, audit>>
    /\ \/ \E e \in Emails : ProvisionIdentity(e)
       \/ \E name \in TenantNameArgs, e \in {<<>>, EmailAUpper}, by \in UserIds :
               CreateTenant(name, e, "", by, NoFault)
       \/ \E t \in TenantIds, name \in TenantNameArgs, by \in UserIds : UpdateTenant(t, name, by)
       \/ \E t \in TenantArgs, by \in UserIds : DeleteTenant(t, by, NoFault)

SpecNames == InitNames /\ [][NextNames]_vars

\* session.Service: identities are provisioned, sessions created, fetched,
\* refreshed and destroyed by concurrent callers while time passes.
SessionOps == {"get", "refresh"}

NextSession ==
    /\ UNCHANGED <<oauthVars, audit>>
    /\ \/ ProvisionIdentity(EmailA) /\ UNCHANGED sessVars
       \/ Tick /\ UNCHANGED sessVars
       \/ \E u \in UserIds : SessionCreate(u)
       \/ \E p \in Callers, op \in SessionOps, id \in SessionArgs : GetFetch(p, op, id)
       \/ \E p \in Callers : GetValidate(p)
       \/ \E p \in Callers : GetDelete(p)
       \/ \E p \in Callers : RefreshStamp(p)
       \/ \E p \in Callers : RefreshUpdate(p)
       \/ \E id \in SessionArgs : Destroy(id)
       \/ \E u \in UserIds : DestroyAllForUser(u)
       \/ CleanupExpired

SpecSession == InitRBAC /\ [][NextSession]_vars

\* The repositories of authorization codes and of access and refresh tokens,
\* called by the redemptions and revocations of the token endpoint.
NextOAuth ==
    \/ Tick /\ UNCHANGED <<sessVars, oauthVars, audit>>
    \/ \E c \in CodeValues, used \in BOOLEAN, exp \in {now + 1} : CodeCreate(c, used, exp)
    \/ \E c \in CodeValues : CodeGetByCode(c)
    \/ \E c \in CodeValues : MarkAsUsed(c)
    \/ \E c \in CodeValues : CodeDelete(c)
    \/ CodeDeleteExpired
    \/ \E k \in TokenKinds, h \in TokenHashes, rev \in BOOLEAN, exp \in {now + 1} :
            TokenCreate(k, h, rev, exp)
    \/ \E k \in TokenKinds, h \in TokenHashes : TokenGetByTokenHash(k, h)
    \/ \E k \in TokenKinds, h \in TokenHashes : TokenRevoke(k, h)
    \/ \E k \in TokenKinds : TokenDeleteExpired(k)

SpecOAuth == InitRBAC /\ [][NextOAuth]_vars

\* tenant.Service with audit.RepositoryLogger as its audit.Logger: every event
\* an operation emits goes to the structured log and to audit_events, whose
\* INSERT can fail.
AuditedOps ==
    \/ ProvisionIdentity(EmailA)
    \/ \E e \in {<<>>, EmailAUpper}, by \in UserIds :
            CreateTenant(NameAcmePadded, e, "", by, NoFault)
    \/ \E t \in TenantArgs, u \in UserIds, by \in UserIds :
            AssignRole(t, u, RoleTenantMember, by, NoFault)
    \/ \E t \in TenantArgs, u \in UserIds, by \in UserIds :
            RevokeRole(t, u, RoleTenantMember, by)
    \/ \E t \in TenantArgs, by \in UserIds : DeleteTenant(t, by, NoFault)

NextAudit ==
    \E persistFails \in BOOLEAN :
        /\ AuditedOps
        /\ audit' = LogAll(audit, last'.emitted, persistFails)
        /\ Len(audit'.slog) <= MaxAuditLines
        /\ UNCHANGED <<sessVars, oauthVars>>

SpecAudit == InitRBAC /\ [][NextAudit]_vars

\* audit.SlogLogger as the audit.Logger: events whose metadata maps up to
\* MaxMetadataKeys keys to values are written to the structured log.
MetadataKeys ==
    {"password", "API_KEY", "target_hash", "Authorization", "monkey",
     "reason", "nickname", "tenant_id"}

MetadataValues == {"v1", "v2"}

Metadatas ==
    UNION {[ks -> MetadataValues] :
              ks \in {x \in SUBSET MetadataKeys : Cardinality(x) <= MaxMetadataKeys}}

\* logger.Log(ctx, audit.Event{Type: ..., Metadata: metadata}) on a SlogLogger
SlogLog(metadata) ==
    /\ Len(audit.slog) < MaxRedactLines
    /\ \E e \in {[Event("tenant_updated", 0, 1, "tenant", "", 0, 1) EXCEPT !.metadata = metadata]} :
          /\ audit' = [audit EXCEPT !.slog = Append(@, SlogLoggerLog(e))]
          /\ last' = [NoCall EXCEPT !.op = "audit_log", !.result = "ok", !.emitted = <<e>>]
    /\ UNCHANGED <<authVars, rbacVars, sessVars, oauthVars>>

\* The structured log is rotated.
SlogRotate ==
    /\ audit.slog # <<>>
    /\ audit' = [audit EXCEPT !.slog = <<>>]
    /\ last' = [NoCall EXCEPT !.op = "log_rotate"]
    /\ UNCHANGED <<authVars, rbacVars, sessVars, oauthVars>>

NextRedact ==
    \/ \E metadata \in Metadatas : SlogLog(metadata)
    \/ SlogRotate

SpecRedact == InitRBAC /\ [][NextRedact]_vars

\* user.Service provisioning identities under several spellings of an address.
NextNormalize ==
    /\ UNCHANGED <<sessVars, oauthVars, audit>>
    /\ \/ \E e \in EmailSpellings : ProvisionIdentity(e)
       \/ \E u \in UserIds, p \in Passwords : AddPassword(u, p)
       \/ \E u \in UserIds, p \in Passwords : SetPassword(u, p)
       \/ Tick

SpecNormalize == InitAuth /\ [][NextNormalize]_vars

\* Both Argon2id hashers, each verifying what it hashed.
NextHasher ==
    \/ \E kind \in HasherKinds, h \in HasherParams, password \in Passwords :
            HashPassword(kind, h, password)
    \/ \E password \in Passwords : VerifyPassword(password)

SpecHasher == InitRBAC /\ [][NextHasher]_vars

\* client.Service over the tenants of tenant.Service.
NextClient ==
    \/ /\ \/ ProvisionIdentity(EmailA)
          \/ \E by \in UserIds : CreateTenant(NameAcmePadded, <<>>, "", by, NoFault)
       /\ UNCHANGED <<sessVars, oauthVars, audit>>
    \/ \E c \in ClientSpecs, u \in UserIds : RegisterClient(c.tenant_id, u, c)
    \/ \E cid \in ClientIds, c \in ClientSpecs, u \in UserIds : UpdateClient(cid, c, u)
    \/ \E t \in TenantIds, cid \in ClientIds, u \in UserIds : DeleteClient(t, cid, u)

SpecClient == InitRBAC /\ [][NextClient]_vars

\* user.Service over a users table that other writers of the repository share.
NextLockRepo ==
    /\ UNCHANGED <<sessVars, oauthVars, audit>>
    /\ \/ ProvisionIdentity(EmailA)
       \/ \E u \in UserIds : AddPassword(u, "secure-password")
       \/ \E e \in {EmailA, EmailD}, p \in Passwords : Authenticate(e, p)
       \/ \E u \in UserIds, n \in 0..lockoutMaxAttempts, until \in {Nil, now, now + lockoutDuration} :
               RepoUpdateLockout(u, n, until)
       \/ Tick

SpecLockRepo == InitAuth /\ [][NextLockRepo]_vars

\* Authenticate calls of several callers, interleaved at their statements.
NextRace ==
    /\ UNCHANGED <<sessVars, oauthVars, audit>>
    /\ \/ ProvisionIdentity(EmailA)
       \/ \E u \in UserIds : AddPassword(u, "secure-password")
       \/ \E c \in LoginCallers, p \in {"secure-password", "wrong-password"} :
               AuthenticateFetch(c, EmailA, p)
       \/ \E c \in LoginCallers : AuthenticateCount(c)
       \/ \E c \in LoginCallers : AuthenticateStore(c)
       \/ Tick

SpecRace == InitAuth /\ [][NextRace]_vars

(***************************************************************************)
(* Properties of Authenticate                                              *)
(***************************************************************************)
WrongPasswordCall ==
    last.op = "authenticate" /\ last.exists /\ last.hasPw /\ last.wrong

\* C1: for an identity with a password, the authenticate call that follows
\* exactly lockoutMaxAttempts consecutive wrong-password calls, made before
\* lockoutDuration has elapsed since the last of them, returns account_locked.
C1_NextCallLocked ==
    (last.op = "authenticate" /\ last.exists /\ last.hasPw /\ last.inWindow)
        => last.result = "account_locked"

\* The call after lockoutMaxAttempts wrong passwords was made in time and was
\* answered invalid_credentials.
C1_Reached ==
    /\ last.op = "authenticate" /\ last.exists /\ last.hasPw /\ last.inWindow
    /\ last.result = "invalid_credentials"

\* C2: after an authenticate call that succeeds, the stored
\* failed_login_attempts of the identity is 0 and its stored locked_until is nil.
C2_SuccessResets ==
    (last.op = "authenticate" /\ last.result = "ok")
        => /\ users[last.user].failed_login_attempts = 0
           /\ users[last.user].locked_until = Nil

\* A successful authenticate that left a non-zero stored counter.
C2_Reached ==
    /\ last.op = "authenticate" /\ last.result = "ok"
    /\ users[last.user].failed_login_attempts > 0

\* The third of three consecutive wrong-password calls on an identity whose
\* counter was 0 has just returned.
ThirdWrongCall == WrongPasswordCall /\ last.runBefore = lockoutMaxAttempts - 1

Listed(r) == {r.permissions[i] : i \in 1..Len(r.permissions)}

\* The contexts a permission is asked for, nil included.
AskedContexts == ContextIds \cup {Nil}

C6_ScopeIsolation ==
    \A u \in UserIds : \A a \in ListForUser(u) :
        (/\ ListForUser(u) = {a}
         /\ CopiesIn(a, assignments) = 1
         /\ a.scope = ScopeTenant)
        => \A B \in AskedContexts \ {a.scope_context_id}, p \in Permissions :
               ~HasPermission(u, ScopeTenant, B, p)

\* The only assignment of a user is a wildcard role in the context of one
\* tenant, where it does grant the permission.
C6_Reached ==
    \E u \in UserIds :
        /\ ListForUser(u) = {AssignmentRow(u, RoleIDPlatformAdmin, ScopeTenant, 1)}
        /\ HasPermission(u, ScopeTenant, 1, "tenant:view")
        /\ ~HasPermission(u, ScopeTenant, UnknownTenant, "tenant:view")

\* C7: under the only assignment of a user, in its own scope and context, a
\* role listing '*' grants every permission string, a role without '*' exactly
\* the strings it lists, and a role with an empty list none.
C7_Wildcard ==
    \A u \in UserIds : \A a \in ListForUser(u) :
        (ListForUser(u) = {a} /\ RoleGetByID(a.role_id) # NoRole)
        => \A p \in Permissions :
               HasPermission(u, a.scope, a.scope_context_id, p)
                   <=> \/ "*" \in Listed(RoleGetByID(a.role_id))
                       \/ p \in Listed(RoleGetByID(a.role_id))

\* A role created with '*' alone grants a permission outside the catalog,
\* under the only assignment of a user.
C7_Reached ==
    \E u \in UserIds :
        /\ ListForUser(u) = {AssignmentRow(u, CustomRoleID, ScopeTenant, 1)}
        /\ roles[CustomRoleID] # NoRole
        /\ roles[CustomRoleID].permissions = <<"*">>
        /\ HasPermission(u, ScopeTenant, 1, "unknown:perm")

(***************************************************************************)
(* Properties of tenant.Service                                            *)
(***************************************************************************)
HasPlatformAssignment(u) == \E a \in ListForUser(u) : a.scope = ScopePlatform

\* The identities holding tenant_owner in the scope of tenant t.
Owners(t) ==
    {u \in UserIds :
        \E a \in DOMAIN assignments :
            SameKey(a, AssignmentRow(u, RoleIDTenantOwner, ScopeTenant, t))}

\* C8: for a user without platform assignment, a tenant-scoped permission is
\* granted only while a membership record of the user in that tenant exists.
C8_MembershipRequired ==
    \A u \in UserIds, t \in TenantIds, p \in Permissions :
        (~HasPlatformAssignment(u) /\ HasPermission(u, ScopeTenant, t, p))
            => CheckMembership(t, u)

\* A membership was removed and its user still has a permission in the tenant.
C8_Reached ==
    /\ last.op = "remove_member"
    /\ \E u \in UserIds, t \in TenantIds :
          /\ ~HasPlatformAssignment(u)
          /\ ~CheckMembership(t, u)
          /\ HasPermission(u, ScopeTenant, t, "tenant:view")

\* C9: every tenant that is not deleted has exactly one identity holding
\* tenant_owner in its scope.
C9_ExactlyOneOwner ==
    \A t \in TenantIds :
        (tenants[t] # NoTenant /\ tenants[t].deleted_at = Nil)
            => Cardinality(Owners(t)) = 1

\* A live tenant with two owners.
C9_Reached ==
    \E t \in TenantIds :
        /\ tenants[t] # NoTenant /\ tenants[t].deleted_at = Nil
        /\ Cardinality(Owners(t)) = 2

\* C10: RevokeRole of tenant_owner by its own holder returns the security
\* violation, emits no event and leaves every table as it was.
C10_SelfRevokeRejected ==
    /\ [](( /\ last.op = "revoke_role"
             /\ last.args[2] = last.args[4]
             /\ last.args[3] = RoleTenantOwner )
            => (last.result = "security_violation" /\ last.emitted = <<>>))
    /\ [][(last'.op = "revoke_role" /\ last'.result = "security_violation")
            => UNCHANGED <<users, credentials, tenants, members, clients, roles,
                           assignments>>]_vars

\* An owner and member of a tenant asked to revoke their own tenant_owner
\* role, was refused and still holds it.
C10_Reached ==
    /\ last.op = "revoke_role"
    /\ last.result = "security_violation"
    /\ last.args[2] \in Owners(last.args[1])
    /\ CheckMembership(last.args[1], last.args[2])

(***************************************************************************)
(* Properties of the cascade of DeleteTenant and of the writes of          *)
(* AssignRole and CreateTenant, over a store whose calls can fail          *)
(***************************************************************************)
\* The tenant-scoped assignments of tenant t.
AssignmentsOf(asg, t) ==
    {a \in DOMAIN asg : a.scope = ScopeTenant /\ a.scope_context_id = t}

\* C11: after reading the tenant, DeleteTenant issues its store calls in the
\* order memberships, clients, legacy tenant roles, generic assignments,
\* tenant, and emits tenant_deleted after the last of them. When the k-th of
\* them fails, the calls issued are the first k, the tables of the later calls
\* are as they were, the call returns an error and emits no event.
C11_CascadeOrder ==
    /\ [](last.op = "delete_tenant" =>
            LET CascadeOrder ==
                    <<"tenant_members.delete_by_tenant_id",
                      "oauth2_clients.delete_by_tenant_id",
                      "tenant_roles.delete_by_tenant_id",
                      "rbac_assignments.delete_by_context_id", "tenants.delete">>
            IN
            /\ Head(last.calls) = "tenants.get_by_id"
            /\ Len(last.calls) \in 2..(Len(CascadeOrder) + 1)
            /\ Tail(last.calls) = SubSeq(CascadeOrder, 1, Len(last.calls) - 1)
            /\ last.fault # 0 => /\ Len(last.calls) - 1 = last.fault
                                 /\ last.result = "storage_error"
            /\ last.result # "ok" => last.emitted = <<>>
            /\ last.result = "ok" =>
                  /\ Tail(last.calls) = CascadeOrder
                  /\ Len(last.emitted) = 1
                  /\ last.emitted[1].type = "tenant_deleted")
    /\ [][(last'.op = "delete_tenant" /\ last'.fault # 0) =>
            /\ tenants' = tenants
            \* the legacy and the generic delete work on the same table
            /\ last'.fault <= 3 => assignments' = assignments
            /\ last'.fault <= 2 => clients' = clients
            /\ last'.fault = 1 => members' = members]_vars

\* The legacy tenant-role delete of a tenant with a member, a client and an
\* assignment failed: the memberships are gone, the client is soft-deleted,
\* the assignment and the tenant are still there.
C11_Reached ==
    /\ last.op = "delete_tenant"
    /\ last.fault = 3
    /\ last.result = "storage_error"
    /\ \E c \in ClientIds : /\ clients[c] # NoClient
                            /\ clients[c].tenant_id = last.args[1]
                            /\ clients[c].deleted_at # Nil
    /\ AssignmentsOf(assignments, last.args[1]) # {}
    /\ TenantGetByID(tenants, last.args[1]) # NoTenant

\* C12: when DeleteTenant(T) returns without error, no membership of T is
\* left, every client of T is soft-deleted, no assignment in the scope of
\* tenant T is left (the legacy tenant-role records are these same rows), T is
\* soft-deleted and GetByID does not find it, and the call emitted one
\* tenant_deleted event, for T.
C12_DeleteLeavesNothing ==
    (last.op = "delete_tenant" /\ last.result = "ok") =>
        LET t == last.args[1] IN
        /\ \A m \in members : m[1] # t
        /\ \A c \in ClientIds :
              (clients[c] # NoClient /\ clients[c].tenant_id = t) => clients[c].deleted_at # Nil
        /\ AssignmentsOf(assignments, t) = {}
        /\ tenants[t] # NoTenant /\ tenants[t].deleted_at # Nil
        /\ TenantGetByID(tenants, t) = NoTenant
        /\ Len(last.emitted) = 1
        /\ last.emitted[1].type = "tenant_deleted"
        /\ last.emitted[1].target = t
        /\ last.emitted[1].metadata.tenant_id = t

\* DeleteTenant returned without error for a tenant that had a client.
C12_Reached ==
    /\ last.op = "delete_tenant"
    /\ last.result = "ok"
    /\ \E c \in ClientIds : /\ clients[c] # NoClient
                            /\ clients[c].tenant_id = last.args[1]
                            /\ clients[c].deleted_at # Nil
    /\ TenantGetByID(tenants, last.args[1]) = NoTenant

\* The tables with the times of the soft deletes left out: a deleted_at that
\* is set reads 0.
Undated(s) ==
    [s EXCEPT
       !.tenants = [t \in DOMAIN s.tenants |->
                       IF s.tenants[t] = NoTenant \/ s.tenants[t].deleted_at = Nil
                       THEN s.tenants[t] ELSE [s.tenants[t] EXCEPT !.deleted_at = 0]],
       !.clients = [c \in DOMAIN s.clients |->
                       IF s.clients[c] = NoClient \/ s.clients[c].deleted_at = Nil
                       THEN s.clients[c] ELSE [s.clients[c] EXCEPT !.deleted_at = 0]]]

\* A DeleteTenant or AssignRole that a failed store call interrupted is run
\* again, later and without fault: the result and the tables are those of one
\* run without fault of the same call in place of the interrupted one, up to
\* the times written in deleted_at.
RerunConverges ==
    /\ (last'.op = "delete_tenant" /\ last'.fault # 0) =>
          \A rerun \in {Cascade(1, Store(tenants', members', clients', assignments'),
                                  last'.args[1], now' + 1, NoFault)},
             once  \in {Cascade(1, Store(tenants, members, clients, assignments),
                                  last'.args[1], now, NoFault)} :
              /\ rerun.result = once.result
              /\ Undated(rerun.store) = Undated(once.store)
    /\ (last'.op = "assign_role" /\ last'.fault # 0) =>
          \A a \in {last'.args} :
          \A rerun \in {AssignRoleStep(tenants', users', members', assignments',
                                         a[1], a[2], a[3], a[4], NoFault)},
             once  \in {AssignRoleStep(tenants, users, members, assignments,
                                         a[1], a[2], a[3], a[4], NoFault)} :
              /\ rerun.result = once.result
              /\ rerun.members = once.members
              /\ rerun.assignments = once.assignments

\* The store call of the cascade is made on the tables it left: what it
\* returns and whether the tables are as it left them.
CallAgain(call, t) ==
    LET first  == CascadeCall(call, Store(tenants, members, clients, assignments), t, now)
        second == CascadeCall(call, first.store, t, now + 1)
    IN  [first |-> first.err, second |-> second.err, same |-> second.store = first.store]

\* The three writes of AssignRole are made again on the tables they left.
AssignWritesIdempotent ==
    \A t \in TenantArgs, u \in UserIds, by \in UserIds :
        \A asg \in {InsertAssignment(assignments,
                                      [AssignmentRow(u, RoleIDTenantOwner, ScopeTenant, t)
                                          EXCEPT !.granted_by = by])} :
            /\ InsertAssignment(asg, [AssignmentRow(u, RoleIDTenantOwner, ScopeTenant, t)
                                         EXCEPT !.granted_by = by]) = asg
            /\ (members \cup {<<t, u>>}) \cup {<<t, u>>} = members \cup {<<t, u>>}

\* C13 as stated: a re-run of an interrupted DeleteTenant or AssignRole
\* converges to the tables of one uninterrupted run, and every store call of
\* the two, made again on its own result, changes nothing and returns no error.
C13_EveryStepIdempotent ==
    /\ [][RerunConverges]_vars
    /\ [](AssignWritesIdempotent)
    /\ [](\A t \in TenantArgs : \A i \in 1..Len(DeleteTenantCalls) :
             \A r \in {CallAgain(DeleteTenantCalls[i], t)} :
                r.first = "" => (r.second = "" /\ r.same))

\* C13, amended: the re-run converges, and every store call made again on its
\* own result changes nothing; none returns an error but the soft delete of
\* the tenant, which returns tenant_not_found.
C13_RerunConvergesDeleteNotFound ==
    /\ [][RerunConverges]_vars
    /\ [](AssignWritesIdempotent)
    /\ [](\A t \in TenantArgs : \A i \in 1..Len(DeleteTenantCalls) :
             \A r \in {CallAgain(DeleteTenantCalls[i], t)} :
                r.first = "" =>
                   /\ r.same
                   /\ r.second = IF DeleteTenantCalls[i] = "tenants.delete"
                                 THEN "tenant_not_found" ELSE "")

\* The grant of AssignRole failed after the legacy write and the membership
\* write were made.
C13_Reached ==
    /\ last.op = "assign_role"
    /\ last.fault = 3
    /\ last.result = "storage_error"
    /\ <<last.args[1], last.args[2]>> \in members
    /\ \E a \in DOMAIN assignments :
          SameKey(a, AssignmentRow(last.args[2], MapTenantRole(last.args[3]), ScopeTenant,
                                   last.args[1]))

\* C14: when CreateTenant returns a tenant T and an owner email was given, T
\* is stored with status active, an identity with the hash of that email
\* exists, that identity is a member of T and holds the seeded tenant_owner
\* role in the scope of tenant T with granted_by the creator, and a
\* tenant_created event with tenant_id, tenant_name and owner_id in its
\* metadata was emitted after the role_assigned event.
C14_CreateTenantPostcondition ==
    (last.op = "create_tenant" /\ last.result = "ok" /\ last.args[4] # <<>>) =>
        LET t       == last.args[1]
            owner   == last.args[2]
            creator == last.args[3]
        IN
        /\ TenantGetByID(tenants, t) # NoTenant
        /\ tenants[t].status = "active"
        /\ owner \in UserIds
        /\ users[owner] # NoUser
        /\ users[owner].email_hash = ComputeEmailHash(hmacKey, last.args[4])
        /\ <<t, owner>> \in members
        /\ \E a \in DOMAIN assignments :
              /\ a.user_id = owner
              /\ a.role_id = "00000000-0000-0000-0000-000000000002"
              /\ a.scope = "tenant"
              /\ a.scope_context_id = t
              /\ a.granted_by = creator
        /\ Len(last.emitted) = 2
        /\ last.emitted[1].type = "role_assigned"
        /\ last.emitted[2].type = "tenant_created"
        /\ last.emitted[2].metadata =
              [tenant_id |-> t, tenant_name |-> tenants[t].name, owner_id |-> owner]

\* CreateTenant returned a tenant whose owner holds tenant_owner in it and is
\* not a member of it: the membership insert had failed.
C14_Reached ==
    /\ last.op = "create_tenant"
    /\ last.result = "ok"
    /\ last.args[4] # <<>>
    /\ last.args[2] \in Owners(last.args[1])
    /\ <<last.args[1], last.args[2]>> \notin members

\* C17: when AssignRole(t, u, r, grantedBy) returns without error, the
\* assignment (u, seeded role id of r, tenant, t), which is also the legacy
\* tenant-role record, and the membership (t, u) exist, whichever store call
\* failed.
C17_AssignRoleWritesAll ==
    (last.op = "assign_role" /\ last.result = "ok") =>
        /\ \E a \in DOMAIN assignments :
              SameKey(a, AssignmentRow(last.args[2], MapTenantRole(last.args[3]),
                                       ScopeTenant, last.args[1]))
        /\ <<last.args[1], last.args[2]>> \in members

\* AssignRole returned without error although its membership insert failed;
\* the assignment exists, the membership does not.
C17_Reached ==
    /\ last.op = "assign_role"
    /\ last.result = "ok"
    /\ last.fault = 2
    /\ <<last.args[1], last.args[2]>> \notin members
    /\ \E a \in DOMAIN assignments :
          /\ a.user_id = last.args[2]
          /\ a.scope_context_id = last.args[1]

(***************************************************************************)
(* Properties of the tenant names                                          *)
(***************************************************************************)
LiveTenants == {t \in TenantIds : TenantGetByID(tenants, t) # NoTenant}

\* C15: no two tenants that are not deleted have the same name, whatever
\* CreateTenant and UpdateTenant calls were made; a CreateTenant whose trimmed
\* name is held by a tenant that is not deleted returns
\* tenant_already_exists and leaves every table as it was.
C15_NamesUnique ==
    /\ [](\A t1, t2 \in LiveTenants : tenants[t1].name = tenants[t2].name => t1 = t2)
    /\ [][(last'.op = "create_tenant" /\ TenantByName(tenants, last'.args[5]) # {})
            => /\ last'.result = "tenant_already_exists"
               /\ UNCHANGED <<users, credentials, tenants, members, clients, roles,
                              assignments>>]_vars

\* UpdateTenant gave a tenant the name of another tenant that is not deleted.
C15_Reached ==
    /\ last.op = "update_tenant"
    /\ last.result = "ok"
    /\ \E t \in LiveTenants : t # last.args[1] /\ tenants[t].name = tenants[last.args[1]].name

(***************************************************************************)
(* Properties of AssignmentRepository.Grant                                *)
(***************************************************************************)
\* C16: however often Grant is called for the same (user, role, scope, scope
\* context), the platform scope with its null context included,
\* rbac_assignments holds one row of it; a repeated Grant returns no error
\* and adds no row.
C16_GrantOnce ==
    /\ \A a \in DOMAIN assignments : CopiesIn(a, assignments) = 1
    /\ \A u \in UserIds, r \in GrantRoleIds, sc \in Scopes, ctx \in ContextIds \cup {Nil} :
          ~InsertViolates(users, AssignmentRow(u, r, sc, ctx), 0) =>
              \A once \in {InsertAssignment(assignments, AssignmentRow(u, r, sc, ctx))} :
                  InsertAssignment(once, AssignmentRow(u, r, sc, ctx)) = once

\* Grant was called twice for the same platform assignment and the table
\* holds two rows of it.
C16_Reached ==
    /\ last.op = "grant"
    /\ last.result = "ok"
    /\ \E a \in DOMAIN assignments :
          /\ a.scope = ScopePlatform
          /\ a.scope_context_id = Nil
          /\ CopiesIn(a, assignments) = 2

(***************************************************************************)
(* session.Service                                                         *)
(***************************************************************************)
\* C18 as stated: a Get that fetched a session returns it exactly when, at
\* the clock it validated against, now < expires_at and
\* now - last_seen_at <= idle_timeout, and returns expired otherwise.
C18_ValidIffBeforeExpiry ==
    (last.op = "get" /\ last.result # "not_found") =>
        /\ last.result \in {"ok", "expired"}
        /\ last.result = "ok" <=>
              /\ last.obs.at < last.obs.session.expires_at
              /\ last.obs.at - last.obs.session.last_seen_at <= sessionIdleTimeout

\* C18 amended: a Get that fetched a session returns it exactly when, at the
\* clock it validated against, now <= expires_at and
\* now - last_seen_at <= idle_timeout, and returns expired otherwise.
C18_ValidIffNotAfterExpiry ==
    (last.op = "get" /\ last.result # "not_found") =>
        /\ last.result \in {"ok", "expired"}
        /\ last.result = "ok" <=>
              /\ last.obs.at <= last.obs.session.expires_at
              /\ last.obs.at - last.obs.session.last_seen_at <= sessionIdleTimeout

\* A Get validated a session at the very instant expires_at, within the idle
\* timeout, and returned it.
C18_Reached ==
    /\ last.op = "get"
    /\ last.result = "ok"
    /\ last.obs.at = last.obs.session.expires_at
    /\ last.obs.at - last.obs.session.last_seen_at <= sessionIdleTimeout

RefreshStep(p) ==
    /\ inflight[p].op = "refresh"
    /\ inflight'[p].pc # inflight[p].pc

\* The step leaves the row of id as it is, or changes its last_seen_at only.
OnlyLastSeen(id) ==
    \A a \in {SessionRepoGet(sessions, id)}, b \in {SessionRepoGet(sessions', id)} :
        \/ a = b
        \/ /\ a # NoSession
           /\ b # NoSession
           /\ [b EXCEPT !.last_seen_at = a.last_seen_at] = a

\* The Update of a Refresh stores the time that Refresh read, whatever was
\* stored before, and storing it again changes nothing.
LastWriterWins(p) ==
    (inflight[p].pc = "update" /\ SessionRepoGet(sessions, inflight[p].id) # NoSession) =>
        /\ sessions'[inflight[p].id].last_seen_at = inflight[p].session.last_seen_at
        /\ SessionRepoUpdate(sessions', inflight[p].session) = sessions'

\* A Refresh that ran while the session was destroyed has finished and the
\* session is absent.
DestroyWins ==
    (last.op = "refresh" /\ last.obs.destroyed) =>
        SessionRepoGet(sessions, last.args[1]) = NoSession

\* C20: under every interleaving of Refresh, Get, Destroy and
\* DestroyAllForUser a step of Refresh changes nothing of a stored session
\* but last_seen_at (the only other effect of a Refresh is that of its
\* validating fetch, which removes a session it found expired or idle); the
\* value stored is the one of the last Refresh to write, writing it again
\* changes nothing, and after a Refresh that overlapped a destroy the session
\* is absent.
C20_RefreshSafeUnderRace ==
    /\ []DestroyWins
    /\ [][\A p \in Callers : RefreshStep(p) =>
             /\ \A id \in SessionArgs :
                   \/ OnlyLastSeen(id)
                   \/ /\ inflight[p].pc = "delete"
                      /\ id = inflight[p].id
                      /\ SessionRepoGet(sessions', id) = NoSession
                      /\ \/ IsExpired(inflight[p].session, inflight[p].at)
                         \/ IsIdle(inflight[p].session, inflight[p].at, sessionIdleTimeout)
             /\ LastWriterWins(p)]_vars

\* A Refresh fetched and validated the session, the session was destroyed,
\* and the Update of the Refresh found no row.
C20_Reached ==
    /\ last.op = "refresh"
    /\ last.obs.destroyed
    /\ last.result = "not_found"
    /\ last.obs.session.last_seen_at = last.obs.at

(***************************************************************************)
(* Authorization codes and tokens                                          *)
(***************************************************************************)
\* C21: of the MarkAsUsed calls made on one authorization code, at most one
\* reports success.
C21_AtMostOneSuccess ==
    \A c \in CodeValues : redeemed[c] <= 1

\* A second MarkAsUsed call on a code, made after the first had marked it as
\* used, returned nil.
C21_Reached ==
    /\ last.op = "mark_as_used"
    /\ last.result = "ok"
    /\ last.obs # NoCode
    /\ last.obs.is_used
    /\ redeemed[last.args[1]] = 2

\* C22: the used flag of a stored authorization code and the revoked flag of
\* a stored access or refresh token never go from true to false.
C22_FlagsMonotone ==
    [][/\ \A c \in CodeValues :
             (codes[c] # NoCode /\ codes'[c] # NoCode /\ codes[c].is_used)
                 => codes'[c].is_used
       /\ \A k \in TokenKinds, h \in TokenHashes :
             (tokens[k][h] # NoToken /\ tokens'[k][h] # NoToken /\ tokens[k][h].is_revoked)
                 => tokens'[k][h].is_revoked]_vars

\* A used code was marked as used again and a revoked token is stored.
C22_Reached ==
    /\ last.op = "mark_as_used"
    /\ last.obs # NoCode
    /\ last.obs.is_used
    /\ codes[last.args[1]].is_used
    /\ \E k \in TokenKinds, h \in TokenHashes :
          tokens[k][h] # NoToken /\ tokens[k][h].is_revoked

\* C23: the persisted audit log is append-only: every step of the audited
\* services, delete_tenant and its cascade included, leaves each stored audit
\* event in place and unmodified; the log only grows at its end.
C23_AuditAppendOnly ==
    [][/\ Len(audit'.events) >= Len(audit.events)
       /\ SubSeq(audit'.events, 1, Len(audit.events)) = audit.events]_vars

\* C23 witness: a tenant has been deleted with its cascade and the
\* tenant_created event that names it is still stored.
C23_Reached ==
    /\ last.op = "delete_tenant"
    /\ last.result = "ok"
    /\ tenants[last.args[1]].deleted_at # -1
    /\ "rbac_assignments.delete_by_context_id" \in {last.calls[j] : j \in DOMAIN last.calls}
    /\ \E i \in DOMAIN audit.events :
            /\ audit.events[i].type = "tenant_created"
            /\ audit.events[i].metadata.tenant_id = last.args[1]

\* A step of an operation that emitted events while audit_events refused them.
SinkFailed ==
    /\ last'.emitted # <<>>
    /\ Len(audit'.slog) > Len(audit.slog)
    /\ audit'.slog[Len(audit'.slog)] = PersistError

\* C24: when the persistent audit sink fails, the step is still a step of the
\* business operation (its result and its writes are those the operation
\* produces), nothing is stored in audit_events, and for each emitted event the
\* structured log holds the AUDIT_EVENT record before the record of the
\* persistence error.
C24_SinkFailureSwallowed ==
    [][SinkFailed =>
        /\ AuditedOps
        /\ audit'.events = audit.events
        /\ Len(audit'.slog) = Len(audit.slog) + 2 * Len(last'.emitted)
        /\ \A i \in DOMAIN last'.emitted :
              /\ audit'.slog[Len(audit.slog) + 2 * i - 1] = SlogLoggerLog(last'.emitted[i])
              /\ audit'.slog[Len(audit.slog) + 2 * i] = PersistError]_vars

\* C24 witness: create_tenant succeeded and stored its tenant while the
\* persistent sink was failing: the log ends with the error record and
\* audit_events holds nothing.
C24_Reached ==
    /\ last.op = "create_tenant"
    /\ last.result = "ok"
    /\ \E t \in DOMAIN tenants : tenants[t] # NoTenant
    /\ audit.events = <<>>
    /\ Len(audit.slog) = 2 * Len(last.emitted)
    /\ audit.slog[Len(audit.slog)] = PersistError
    /\ audit.slog[1].msg = "AUDIT_EVENT"

\* The keys of MetadataKeys that contain, in any letter case, one of password,
\* secret, token, key, authorization, hash, credential, private, api_key.
C25_SensitiveKeys == {"password", "API_KEY", "target_hash", "Authorization", "monkey"}

\* C25: in the record the structured log holds for an event, every metadata
\* key of the event is present; under a key that contains a sensitive
\* substring in any letter case the value is "[REDACTED]", and the original
\* value appears nowhere in the record unless the event also carries it under
\* a key that is not sensitive; under every other key the value is the
\* event's.
C25_Redaction ==
    (last.op = "audit_log") =>
        \A e \in {last.emitted[1]}, rec \in {audit.slog[Len(audit.slog)].event} :
            /\ DOMAIN rec.metadata = DOMAIN e.metadata
            /\ \A k \in DOMAIN e.metadata :
                  IF k \in C25_SensitiveKeys
                  THEN /\ rec.metadata[k] = "[REDACTED]"
                       /\ (\A j \in DOMAIN e.metadata \ C25_SensitiveKeys :
                              e.metadata[j] # e.metadata[k])
                          => /\ \A j \in DOMAIN rec.metadata : rec.metadata[j] # e.metadata[k]
                             /\ \A f \in {rec.type, rec.resource, rec.reason} : f # e.metadata[k]
                  ELSE rec.metadata[k] = e.metadata[k]

\* C25 witness: an event with one key in upper case that contains "key" and
\* one key that is not sensitive has been logged.
C25_Reached ==
    /\ last.op = "audit_log"
    /\ DOMAIN last.emitted[1].metadata = {"API_KEY", "nickname"}
    /\ last.emitted[1].metadata["API_KEY"] = "v1"
    /\ audit.slog[Len(audit.slog)].event.metadata["API_KEY"] = "[REDACTED]"
    /\ audit.slog[Len(audit.slog)].event.metadata["nickname"] = last.emitted[1].metadata["nickname"]

\* C26: two emails that are equal after lower-casing and trimming have the same
\* email hash, and provisioning one of them while an identity provisioned
\* under the other exists fails with already_exists and leaves the identities
\* as they are.
C26_NormalizedDuplicateRejected ==
    [][\A e1 \in EmailSpellings, e2 \in EmailSpellings :
          (TrimSpace(ToLower(e1)) = TrimSpace(ToLower(e2))) =>
              /\ ComputeEmailHash(hmacKey, e1) = ComputeEmailHash(hmacKey, e2)
              /\ (/\ isValidEmail(e2)
                  /\ GetByHash(ComputeEmailHash(hmacKey, e2)) # NoUser
                  /\ ProvisionIdentity(e1))
                 => /\ last'.result = "already_exists"
                    /\ users' = users]_vars

\* C26: the identity provisioned as "a@b " exists and provisioning "a@b" has
\* been turned down as an invalid email.
C26_Reached ==
    /\ last.op = "provision"
    /\ last.result = "invalid_email"
    /\ GetByHash(ComputeEmailHash(hmacKey, EmailShortPadded)) # NoUser
    /\ ComputeEmailHash(hmacKey, EmailShortPadded) = ComputeEmailHash(hmacKey, EmailShort)

\* C27: for each of the two hashers and every parameter set, Verify of the
\* string its own Hash produced is true for the password hashed and false,
\* with no error, for any other password.
C27_RoundTrip ==
    (last.op = "verify") =>
        last.result = IF last.args[4] = last.args[3] THEN "true" ELSE "false"

\* C27: password.Hasher has verified the password it hashed and returned an
\* error.
C27_Reached ==
    /\ last.op = "verify"
    /\ last.args[1] = "password.Hasher"
    /\ last.args[4] = last.args[3]
    /\ last.result = "error"

\* What the audit events of one authenticate call for the email may hold: the
\* fixed vocabulary of types, resources and reasons, numbers, no metadata map,
\* and as target the email hash (never the address as given or normalised),
\* the user id, or nothing.
C28_EventsOf(email, events) ==
    \A i \in DOMAIN events :
        \A ev \in {events[i]} :
            /\ ev.type \in {"login_failed", "login_success", "user_locked"}
            /\ ev.resource \in {"login", "login_attempt"}
            /\ ev.reason \in {"", "user_not_found", "locked_out", "invalid_password"}
            /\ ev.tenant_id = 0
            /\ ev.actor_id \in 0..MaxUsers
            /\ ev.attempts \in 0..MaxAttempts
            /\ ev.metadata = NoMetadata
            /\ IF ev.resource = "login_attempt"
               THEN /\ ev.target = ComputeEmailHash(hmacKey, email)
                    /\ ev.target # email
                    /\ ev.target # TrimSpace(ToLower(email))
               ELSE IF ev.type = "login_success"
               THEN ev.target = ev.actor_id
               ELSE ev.target = <<>>

\* C28: no audit event of authenticate carries the plaintext email in a
\* field or a metadata value; for an email with no identity the call emits
\* one login_failed event with reason user_not_found, no actor, and the email
\* hash as its target.
C28_NoPlaintextEmail ==
    [][\A e \in Emails, p \in Passwords :
          (last'.op = "authenticate" /\ Authenticate(e, p)) =>
              /\ C28_EventsOf(e, last'.emitted)
              /\ (GetByHash(ComputeEmailHash(hmacKey, e)) = NoUser) =>
                     last'.emitted =
                         <<Event("login_failed", 0, 0, "login_attempt", "user_not_found", 0,
                                 ComputeEmailHash(hmacKey, e))>>]_vars

\* C28 witness: authenticate was called with an email that has no identity
\* while another identity exists, and emitted its login_failed event.
C28_Reached ==
    /\ last.op = "authenticate"
    /\ ~last.exists
    /\ \E u \in UserIds : users[u] # NoUser
    /\ Len(last.emitted) = 1
    /\ last.emitted[1].reason = "user_not_found"
    /\ last.emitted[1].target = ComputeEmailHash(hmacKey, EmailD)

\* C29: a user whose assignments are all platform-scoped is granted a
\* tenant-scoped question only if the user also holds an assignment scoped to
\* that tenant; holding none, the user is not granted it.
C29_NoDefaultTenantAccess ==
    \A u \in UserIds, p \in Permissions, t \in ContextIds :
        (/\ ListForUser(u) # {}
         /\ \A a \in ListForUser(u) : a.scope = ScopePlatform
         /\ HasPermission(u, ScopeTenant, t, p))
        => \E a \in ListForUser(u) : a.scope = ScopeTenant /\ a.scope_context_id = t

\* C29: a user whose one assignment is the platform-scoped platform_admin
\* role is granted tenant:manage_users in a tenant.
C29_Reached ==
    \E u \in UserIds, t \in ContextIds :
        /\ ListForUser(u) # {}
        /\ \A a \in ListForUser(u) :
              a.scope = ScopePlatform /\ a.role_id = RoleIDPlatformAdmin
        /\ HasPermission(u, ScopeTenant, t, "tenant:manage_users")

\* C30: every client stored by register_client or update_client has allowed
\* scopes that are all OIDC scopes and include openid, and a call whose
\* client spec does not is rejected and stores nothing.
C30_ClientScopesValid ==
    /\ \A cid \in ClientIds :
          clients[cid] # NoClient =>
              /\ \A i \in DOMAIN clients[cid].allowed_scopes :
                    clients[cid].allowed_scopes[i] \in OIDCScopes
              /\ \E i \in DOMAIN clients[cid].allowed_scopes :
                    clients[cid].allowed_scopes[i] = "openid"
    /\ (/\ last.op \in {"register_client", "update_client"}
        /\ \/ \E i \in DOMAIN last.args[1].allowed_scopes :
                 last.args[1].allowed_scopes[i] \notin OIDCScopes
           \/ \A i \in DOMAIN last.args[1].allowed_scopes :
                 last.args[1].allowed_scopes[i] # "openid")
       => last.result # "ok"

\* C30: update_client has succeeded with a scope outside the OIDC set, and the
\* stored client carries it.
C30_Reached ==
    /\ last.op = "update_client"
    /\ last.result = "ok"
    /\ last.args[1].allowed_scopes = <<"openid", "admin">>
    /\ \E cid \in ClientIds : /\ clients[cid] # NoClient
                              /\ clients[cid].allowed_scopes = <<"openid", "admin">>

\* C31: in every reachable state an identity for which authenticate would not
\* return account_locked has failed_login_attempts in 0..(max_attempts - 1)
\* and no locked_until stored, also once a lockout has run out with time.
C31_UnlockedState ==
    \A u \in UserIds :
        (users[u] # NoUser /\ ~IsLockedOut(LoadUser(users[u]), now)) =>
            /\ users[u].failed_login_attempts \in 0..(lockoutMaxAttempts - 1)
            /\ users[u].locked_until = Nil

\* C31: a lockout has run out: the identity is no longer answered
\* account_locked, and its row still holds max_attempts failures and the
\* past locked_until.
C31_Reached ==
    \E u \in UserIds :
        /\ users[u] # NoUser
        /\ repoImpl = "mock"
        /\ users[u].locked_until # Nil
        /\ users[u].locked_until <= now
        /\ ~IsLockedOut(LoadUser(users[u]), now)
        /\ users[u].failed_login_attempts = lockoutMaxAttempts

\* C32: an authenticate call for an identity whose stored locked_until is in
\* the future returns account_locked whatever the password, emits the one
\* event login_failed with reason locked_out, and leaves the stored
\* failed_login_attempts and locked_until as they were.
C32_LockedWindow ==
    [][(last'.op = "authenticate" /\ last'.lockedBefore) =>
          /\ last'.result = "account_locked"
          /\ last'.emitted = <<Event("login_failed", 0, last'.user, "login", "locked_out", 0, <<>>)>>
          /\ users' = users]_vars

\* C32: on the relational repository an identity whose stored locked_until is
\* in the future has been authenticated with its password.
C32_Reached ==
    /\ repoImpl = "postgres"
    /\ last.op = "authenticate"
    /\ last.lockedBefore
    /\ last.result = "ok"
    /\ users[last.user].locked_until > now

\* C33: however failed authenticate calls for an identity interleave, the
\* stored failed_login_attempts is at most the number of failed calls made
\* since the last reset, and wrong-password calls that then run one at a time
\* lock the identity within max_attempts calls: fewer than max_attempts of
\* them in a row leave no lock behind.
C33_RaceTolerated ==
    \A u \in UserIds :
        users[u] # NoUser =>
            /\ users[u].failed_login_attempts <= logins.made[u]
            /\ logins.streak[u] < lockoutMaxAttempts

\* C33: max_attempts wrong-password calls have run one after the other, none
\* answered account_locked, and the identity is not locked.
C33_Reached ==
    \E u \in UserIds :
        /\ users[u] # NoUser
        /\ logins.streak[u] = lockoutMaxAttempts
        /\ users[u].locked_until = Nil
        /\ last.op = "authenticate"
        /\ last.result = "invalid_credentials"

\* C34: once locked_until is set to a future time, no step clears it or moves
\* it to an earlier time, except a successful authenticate, which clears it.
\* A failed authenticate call that read the identity before the lock was
\* written and stores its update afterwards must leave the lock as it is.
C34_LockKept ==
    [][\A u \in UserIds :
          (/\ users[u] # NoUser
           /\ users'[u] # NoUser
           /\ users[u].locked_until # Nil
           /\ users[u].locked_until > now
           /\ \/ users'[u].locked_until = Nil
              \/ users'[u].locked_until < users[u].locked_until)
          => /\ last'.op = "authenticate"
             /\ last'.result = "ok"
             /\ users'[u].locked_until = Nil]_vars

\* A failed call has just stored its update over a lock that another call
\* wrote after this one had read the identity.
C34_Reached ==
    /\ last.op = "authenticate"
    /\ last.result = "invalid_credentials"
    /\ last.user \in UserIds
    /\ users[last.user] # NoUser
    /\ users[last.user].locked_until = Nil
    /\ users[last.user].failed_login_attempts = lockoutMaxAttempts - 1
    /\ logins.made[last.user] > lockoutMaxAttempts

\* C35: create_tenant is all-or-nothing for the tenant: a call that returns an
\* error leaves no tenant record, role record, assignment or membership that
\* it created.
C35_CreateTenantAllOrNothing ==
    [][(last'.op = "create_tenant" /\ last'.result # "ok") =>
          /\ tenants' = tenants
          /\ members' = members
          /\ assignments' = assignments]_vars

\* create_tenant has returned the error of its role assignment, and the
\* tenant it inserted is in the store.
C35_Reached ==
    /\ last.op = "create_tenant"
    /\ last.result = "storage_error"
    /\ last.fault # NoFault
    /\ last.args[1] \in TenantIds
    /\ tenants[last.args[1]] # NoTenant
    /\ tenants[last.args[1]].deleted_at = Nil

\* C36: in every reachable state, each membership and each tenant-scoped
\* assignment (the legacy tenant-role record and the generic one) refers to a
\* tenant that exists and is not soft-deleted.
C36_NoDanglingTenantRefs ==
    /\ \A m \in members : m[1] \in LiveTenants
    /\ \A a \in DOMAIN assignments :
           a.scope = ScopeTenant => a.scope_context_id \in LiveTenants

\* assign_role has succeeded for a tenant that delete_tenant had soft-deleted.
C36_Reached ==
    /\ last.op = "assign_role"
    /\ last.result = "ok"
    /\ tenants[last.args[1]].deleted_at # Nil
    /\ <<last.args[1], last.args[2]>> \in members
    /\ \E a \in DOMAIN assignments :
           a.scope = ScopeTenant /\ a.scope_context_id = last.args[1]

\* C37: after revoke_role(t, u, r, actor) has returned success, no assignment
\* of role r to u in tenant t is left, and has_permission(u, tenant, t, p) is
\* true only through another assignment of u that is still stored.
C37_RevokedRoleGrantsNothing ==
    [][\A t \in TenantIds, u \in UserIds, rn \in RoleNameArgs :
          (/\ last'.op = "revoke_role"
           /\ last'.result = "ok"
           /\ last'.args[1] = t /\ last'.args[2] = u /\ last'.args[3] = rn) =>
          \A key \in {AssignmentRow(u, MapTenantRole(rn), ScopeTenant, t)} :
             /\ \A a \in DOMAIN assignments' : ~SameKey(a, key)
             /\ \A p \in Permissions :
                   HasPermission(u, ScopeTenant, t, p)' =>
                       \E a \in DOMAIN assignments' :
                           /\ a.user_id = u
                           /\ ~SameKey(a, key)
                           /\ a \in DOMAIN assignments
                           /\ MatchesScope(a, ScopeTenant, t)
                           /\ RoleGetByID(a.role_id)' # NoRole
                           /\ RoleHasPermission(RoleGetByID(a.role_id)', p)]_vars

\* revoke_role has removed the assignment of a role that u held in a tenant
\* that is not deleted, and u has no permission in that tenant any more.
C37_Reached ==
    /\ last.op = "revoke_role"
    /\ last.result = "ok"
    /\ last.exists
    /\ last.args[3] = RoleTenantOwner
    /\ last.args[1] \in LiveTenants
    /\ ~HasPermission(last.args[2], ScopeTenant, last.args[1], "tenant:view")

\* C38: has_permission returns true or false, never an error, on malformed
\* and missing data, and true exactly when some assignment of the user that
\* is well formed for the request has a role that exists and lists the
\* permission or '*'. A tenant or client assignment without context is well
\* formed for no request, a request without context for no assignment but a
\* platform one, and an assignment whose role is missing is skipped.
C38_MalformedIsNonMatching ==
    last.op = "has_permission" =>
        \A u \in {last.args[1]}, sc \in {last.args[2]}, ctx \in {last.args[3]},
           p \in {last.args[4]} :
            /\ last.result \in {"true", "false"}
            /\ last.result = "true" <=>
                  \E a \in DOMAIN assignments :
                      /\ a.user_id = u
                      /\ a.scope # ScopePlatform => a.scope_context_id # Nil
                      /\ a.scope # ScopePlatform => ctx # Nil
                      /\ a.scope # ScopePlatform =>
                             (a.scope = sc /\ a.scope_context_id = ctx)
                      /\ a.role_id \in RoleIds
                      /\ roles[a.role_id] # NoRole
                      /\ \/ "*" \in Listed(roles[a.role_id])
                         \/ p \in Listed(roles[a.role_id])

\* A tenant request without context is refused although the user holds a
\* tenant assignment without context of a role that lists the permission.
C38_Reached ==
    /\ last.op = "has_permission"
    /\ last.result = "false"
    /\ last.args[2] = ScopeTenant
    /\ last.args[3] = Nil
    /\ last.args[4] = "tenant:view"
    /\ BagIn(AssignmentRow(last.args[1], RoleIDMember, ScopeTenant, Nil), assignments)
    /\ "tenant:view" \in Listed(roles[RoleIDMember])

\* C39: expires_at of a session is set by create to the creation time plus
\* the lifetime and no later step changes it; refresh writes last_seen_at
\* only; get returns no session later than lifetime after its creation.
C39_ExpiresAtFixed ==
    [][/\ \A id \in DOMAIN sessions :
             (sessions[id] # NoSession /\ sessions'[id] # NoSession) =>
                 /\ sessions'[id].expires_at = sessions[id].expires_at
                 /\ sessions'[id].created_at = sessions[id].created_at
                 /\ sessions'[id].user_id = sessions[id].user_id
       /\ \A id \in DOMAIN sessions' :
             sessions'[id] # NoSession =>
                 sessions'[id].expires_at = sessions'[id].created_at + sessionLifetime
       /\ Len(sessions') # Len(sessions) =>
             /\ last'.op = "session_create" /\ last'.result = "ok"
             /\ Len(sessions') = Len(sessions) + 1
             /\ sessions'[Len(sessions')].created_at = now
             /\ sessions'[Len(sessions')].expires_at = now + sessionLifetime
       /\ (last' # last /\ last'.op = "get" /\ last'.result = "ok") =>
             last'.obs.at <= last'.obs.session.created_at + sessionLifetime]_vars

\* A refresh has moved last_seen_at of a stored session past its creation
\* time, and the deadline is where create put it.
C39_Reached ==
    /\ last.op = "refresh"
    /\ last.result = "ok"
    /\ last.args[1] \in DOMAIN sessions
    /\ sessions[last.args[1]] # NoSession
    /\ sessions[last.args[1]].last_seen_at > sessions[last.args[1]].created_at
    /\ sessions[last.args[1]].expires_at
           = sessions[last.args[1]].created_at + sessionLifetime

\* C40: every authenticate call emits exactly one terminal audit event: a call
\* that returns an error emits exactly one login_failed and no login_success,
\* with the new attempt count when a password was verified; a call that
\* returns the identity emits exactly one login_success and no login_failed.
\* An identity without credential record is no exception.
C40_OneTerminalEvent ==
    last.op = "authenticate" =>
        IF last.result = "ok"
        THEN /\ CountType(last.emitted, "login_success") = 1
             /\ CountType(last.emitted, "login_failed") = 0
        ELSE /\ CountType(last.emitted, "login_failed") = 1
             /\ CountType(last.emitted, "login_success") = 0
             /\ (last.hasPw /\ last.wrong /\ ~last.lockedBefore) =>
                    \A i \in 1..Len(last.emitted) :
                        last.emitted[i].type = "login_failed" =>
                            last.emitted[i].attempts
                                = users[last.user].failed_login_attempts

\* Authenticate has returned invalid_credentials for an identity that exists
\* and has no credential record, and has emitted no event.
C40_Reached ==
    /\ last.op = "authenticate"
    /\ last.exists
    /\ ~last.hasPw
    /\ ~last.lockedBefore
    /\ last.result = "invalid_credentials"
    /\ last.emitted = <<>>

====
